---- MODULE Spec2Model ----
(***************************************************************************)
(* A model of py-gql: the request pipeline of _graphql.py (do_graphql,     *)
(* graphql, graphql_sync), document validation of validation/validate.py   *)
(* (validate_ast, default_validator), the type classes of schema/types.py  *)
(* and the executors of py_gql.execution.                                  *)
(*                                                                         *)
(* The specifications of the module:                                       *)
(*   Spec       - one request through graphql_sync or graphql;             *)
(*   SpecVal    - repeated calls of validate_ast with the default rules,   *)
(*                one visitor callback per step;                           *)
(*   SpecTypes  - construction, lazy resolution and assignment of the      *)
(*                type attribute of wrapping types and fields;             *)
(*   SpecArgs   - Argument and InputField: default_value, required;        *)
(*   SpecEnum   - EnumType: construction, get_value, get_name;             *)
(*   SpecScalar - ScalarType: serialize, parse, parse_literal;             *)
(*   SpecSchema - a schema: validation, assignments, requests;             *)
(*   SpecExec   - one operation run by the sequential or the cooperative   *)
(*                executor;                                                *)
(*   SpecEq     - comparison of two types with ==;                         *)
(*   SpecDep    - Field and EnumValue: the deprecated flag;                *)
(*   SpecKind   - is_input_type, is_output_type and unwrap_type.           *)
(* Each specification moves its own variables and leaves the others at     *)
(* their idle values.                                                      *)
(***************************************************************************)
EXTENDS Integers, Sequences, FiniteSets, TLC

VARIABLES
    \* ---- one request (_graphql.py)
    entry,          \* the entry point called: "graphql_sync" or "graphql"
    schema_valid,   \* whether schema.validate() accepts the schema
    validators,     \* the validators argument: None or a sequence of callables
    variables,      \* the variables argument: None or a sequence of raw values
    pc,             \* position of the request in the pipeline
    ast,            \* the parsed document, None before parsing
    trace,          \* calls made so far: parse, validators, execute, resolvers
    executor,       \* per-request executor state: [data, errors]
    outcome,        \* what the caller gets: [kind, value]
    \* ---- validate_ast with the default rules (validation/validate.py)
    vdoc,           \* the document under validation
    vst,            \* the visitors of the running call
    vpos,           \* index of the next callback in the schedule, 0 when idle
    vresults,       \* the error lists returned by the completed calls
    \* ---- type objects (schema/types.py)
    heap,           \* the wrapping types and fields constructed so far
    last_read,      \* the latest read of a .type attribute
    \* ---- arguments and input fields (schema/types.py)
    args,           \* the Argument and InputField objects constructed so far
    arg_read,       \* the latest read of a .default_value attribute
    \* ---- enumeration types (schema/types.py)
    enums,          \* the EnumType object that exists, if any
    enum_call,      \* the latest construction or lookup and its outcome
    \* ---- scalar types (schema/types.py)
    scalar,         \* the ScalarType under call: what its user functions do
    scalar_call,    \* the latest call of serialize, parse or parse_literal
    \* ---- a schema and its lifecycle (schema/types.py, _graphql.py)
    sch,            \* the assignable attributes of the schema's types
    sch_validated,  \* whether schema.validate() has returned
    sch_requests,   \* requests made through do_graphql
    \* ---- one operation run by an executor (py_gql.execution)
    xreq,           \* the request: operation type, executor class, root fields
    xfields,        \* per root field: status, resolved and completed value
    counter,        \* the shared counter of the resolver inc
    xlog,           \* resolver starts, awaits and completions, in order
    xerrors,        \* the field errors recorded so far
    xout,           \* what execute_request gives the caller
    \* ---- comparison of two types (schema/types.py)
    eq_heap,        \* the wrapping types the operands are made of
    eq_a,           \* the operand a
    eq_b,           \* the operand b
    eq_call,        \* the answers of a == b and b == a
    \* ---- fields and enum values with a deprecation reason (schema/types.py)
    members,        \* the Field and EnumValue objects constructed so far
    \* ---- classification of a type (schema/types.py)
    kind_heap,      \* the wrapping types the classified type is made of
    kind_named,     \* the named type it was built over
    kind_type,      \* the type handed to the functions
    kind_call       \* the answers of is_input_type, is_output_type and unwrap_type

reqVars == <<entry, schema_valid, validators, variables, pc, ast, trace,
             executor, outcome>>
valVars == <<vdoc, vst, vpos, vresults>>
typVars == <<heap, last_read>>
argVars == <<args, arg_read>>
enumVars == <<enums, enum_call>>
scaVars == <<scalar, scalar_call>>
schVars == <<sch, sch_validated, sch_requests>>
exeVars == <<xreq, xfields, counter, xlog, xerrors, xout>>
eqVars == <<eq_heap, eq_a, eq_b, eq_call>>
depVars == <<members>>
kindVars == <<kind_heap, kind_named, kind_type, kind_call>>
vars == <<reqVars, valVars, typVars, argVars, enumVars, scaVars, schVars, exeVars, eqVars, depVars, kindVars>>

\* What the actions of one specification leave alone: the other groups.
notReq == <<valVars, typVars, argVars, enumVars, scaVars, schVars, exeVars, eqVars, depVars, kindVars>>
notVal == <<reqVars, typVars, argVars, enumVars, scaVars, schVars, exeVars, eqVars, depVars, kindVars>>
notTyp == <<reqVars, valVars, argVars, enumVars, scaVars, schVars, exeVars, eqVars, depVars, kindVars>>
notArg == <<reqVars, valVars, typVars, enumVars, scaVars, schVars, exeVars, eqVars, depVars, kindVars>>
notEnum == <<reqVars, valVars, typVars, argVars, scaVars, schVars, exeVars, eqVars, depVars, kindVars>>
notSca == <<reqVars, valVars, typVars, argVars, enumVars, schVars, exeVars, eqVars, depVars, kindVars>>
notSch == <<reqVars, valVars, typVars, argVars, enumVars, scaVars, exeVars, eqVars, depVars, kindVars>>
notExe == <<reqVars, valVars, typVars, argVars, enumVars, scaVars, schVars, eqVars, depVars, kindVars>>
notEq == <<reqVars, valVars, typVars, argVars, enumVars, scaVars, schVars, exeVars, depVars, kindVars>>
notDep == <<reqVars, valVars, typVars, argVars, enumVars, scaVars, schVars, exeVars, eqVars, kindVars>>
notKind == <<reqVars, valVars, typVars, argVars, enumVars, scaVars, schVars, exeVars, eqVars, depVars>>

None == "None"

(***************************************************************************)
(* Bounds of the model.                                                    *)
(***************************************************************************)
MaxNodes == 3        \* nodes of a document
MaxValidators == 2   \* length of a custom validators list
MaxVars == 2         \* variables carried by a request
MaxFields == 2       \* top-level fields of an operation
MaxCalls == 2        \* calls of validate_ast in one behaviour
MaxObjs == 2         \* type objects constructed in one behaviour
MaxReads == 2        \* reads of one .type counted in a row
MaxArgs == 2         \* Argument and InputField objects constructed
MaxEnumValues == 2   \* value definitions given to one EnumType
MaxRequests == 2     \* requests made on one schema
MaxRootFields == 2   \* root fields selected by one operation
MaxDepth == 2        \* wrapping types around one named type
MaxMembers == 2      \* Field and EnumValue objects constructed

SeqsUpTo(S, n) == UNION {[1..k -> S] : k \in 0..n}

RECURSIVE SeqOfSet(_)
SeqOfSet(S) ==
    IF S = {} THEN <<>>
    ELSE LET m == CHOOSE x \in S : \A y \in S : x <= y
         IN <<m>> \o SeqOfSet(S \ {m})

RECURSIVE Concat(_)
Concat(ss) == IF ss = <<>> THEN <<>> ELSE Head(ss) \o Concat(Tail(ss))

Front(s) == SubSeq(s, 1, Len(s) - 1)

Err(kind, by, at) == [kind |-> kind, by |-> by, at |-> at]

(***************************************************************************)
(* Documents.  A parsed document is a tree of nodes 1..n in document       *)
(* order (a node's parent precedes it).  viol[r] is the node at which the  *)
(* document breaks rule r (0: nowhere); in a document that repeats, a     *)
(* rule that has reported reports again at every node it enters; skip      *)
(* names one rule and the node whose subtree that rule does not look into  *)
(* (rule None: no rule skips; so it is in the documents that repeat).      *)
(***************************************************************************)
SPECIFIED_RULES == <<"UniqueOperationName", "KnownTypeNames">>

RuleSet == {SPECIFIED_RULES[i] : i \in DOMAIN SPECIFIED_RULES}

Parents(n) == {p \in [1..n -> 0..n] : p[1] = 0 /\ \A i \in 2..n : p[i] \in 1..(i - 1)}

Documents ==
    UNION {[n : {n}, parent : Parents(n), viol : [RuleSet -> 0..n],
            repeats : {FALSE},
            skip : {[rule |-> None, node |-> 0]}
                   \cup [rule : RuleSet, node : 1..n]]
           \cup [n : {n}, parent : Parents(n), viol : [RuleSet -> 0..n],
                 repeats : {TRUE},
                 skip : {[rule |-> None, node |-> 0]}] : n \in 1..MaxNodes}

Children(doc, node) == SeqOfSet({i \in 1..doc.n : doc.parent[i] = node})

NoAst ==
    [n |-> 0, parent |-> <<>>, viol |-> [r \in RuleSet |-> 0],
     repeats |-> FALSE, skip |-> [rule |-> None, node |-> 0]]

(***************************************************************************)
(* The visitor framework.  Events(doc, node) is the depth-first walk of    *)
(* the subtree at node: enter, the children in document order, leave.      *)
(***************************************************************************)
RECURSIVE Events(_, _), EventsOfList(_, _)
Events(doc, node) ==
    <<[kind |-> "enter", node |-> node]>>
        \o EventsOfList(doc, Children(doc, node))
        \o <<[kind |-> "leave", node |-> node]>>
EventsOfList(doc, nodes) ==
    IF nodes = <<>> THEN <<>>
    ELSE Events(doc, Head(nodes)) \o EventsOfList(doc, Tail(nodes))

Reverse(s) == [i \in 1..Len(s) |-> s[Len(s) + 1 - i]]

\* ParallelVisitor: enter goes to v1..vN in order, leave in reverse order.
ParallelOrder(visitors, kind) ==
    IF kind = "enter" THEN visitors ELSE Reverse(visitors)

\* The callbacks of one ParallelVisitor.visit(document), in delivery order.
Schedule(doc, visitors) ==
    LET evs == Events(doc, 1)
    IN Concat([e \in 1..Len(evs) |->
                 LET order == ParallelOrder(visitors, evs[e].kind)
                 IN [i \in 1..Len(order) |->
                       [kind |-> evs[e].kind, node |-> evs[e].node,
                        visitor |-> order[i]]]])

Top(s) == IF s = <<>> THEN 0 ELSE s[Len(s)]

\* TypeInfoVisitor: push on enter, pop on leave.
TypeInfoEnter(st, node) == [st EXCEPT !.stack = Append(@, node)]
TypeInfoLeave(st, node) == [st EXCEPT !.stack = Front(@)]

\* Whether rule v reports at node: at the node that breaks it and, in a
\* document that repeats, at every node it enters after its first report.
Reports(doc, st, v, node) ==
    \/ doc.viol[v] = node
    \/ doc.repeats /\ st.errors[v] # <<>>

\* A rule visitor: on enter it looks at the type context, reports into its
\* own buffer and may ask to skip the subtree; on leave it only looks.
\* emitted keeps every report of the call in the order it was made.
RuleEnter(doc, st, v, node) ==
    [st EXCEPT
       !.log = Append(@, [visitor |-> v, kind |-> "enter", node |-> node,
                          top |-> Top(st.stack)]),
       !.errors[v] = IF Reports(doc, st, v, node)
                     THEN Append(@, Err("ValidationError", v, node)) ELSE @,
       !.emitted = IF Reports(doc, st, v, node)
                   THEN Append(@, Err("ValidationError", v, node)) ELSE @,
       !.skipping[v] = IF doc.skip = [rule |-> v, node |-> node]
                       THEN node ELSE @]
RuleLeave(doc, st, v, node) ==
    [st EXCEPT
       !.log = Append(@, [visitor |-> v, kind |-> "leave", node |-> node,
                          top |-> Top(st.stack)])]

\* ParallelVisitor delivering one callback cb to one of its visitors.
Deliver(doc, st, cb) ==
    LET v == cb.visitor
        node == cb.node
    IN IF cb.kind = "enter"
       THEN IF st.skipping[v] # 0 THEN st
            ELSE IF v = "TypeInfo" THEN TypeInfoEnter(st, node)
            ELSE RuleEnter(doc, st, v, node)
       ELSE IF st.skipping[v] = node THEN [st EXCEPT !.skipping[v] = 0]
            ELSE IF st.skipping[v] # 0 THEN st
            ELSE IF v = "TypeInfo" THEN TypeInfoLeave(st, node)
            ELSE RuleLeave(doc, st, v, node)

RECURSIVE Visit(_, _, _)
Visit(doc, st, sched) ==
    IF sched = <<>> THEN st
    ELSE Visit(doc, Deliver(doc, st, Head(sched)), Tail(sched))

(***************************************************************************)
(* default_validator and validate_ast (validation/validate.py).            *)
(***************************************************************************)
NoVisitors ==
    [stack |-> <<>>, errors |-> [r \in RuleSet |-> <<>>],
     skipping |-> [v \in RuleSet \cup {"TypeInfo"} |-> 0], log |-> <<>>,
     emitted |-> <<>>]

\* A faulty variant: the visitors of the previous call are used again.
ReusedVisitors(prev) == [prev EXCEPT !.stack = <<>>, !.log = <<>>, !.emitted = <<>>]

\* type_info = TypeInfoVisitor(schema); visitors = [cls(schema, type_info) ...]:
\* new objects with empty buffers, whatever the previous call left behind.
FreshVisitors(prev) == NoVisitors

\* A faulty variant: the rules come before TypeInfo.
RulesBeforeTypeInfo(type_info, rule_visitors) == rule_visitors \o <<type_info>>

\* ParallelVisitor(type_info, *visitors)
VisitorList(type_info, rule_visitors) == <<type_info>> \o rule_visitors

\* A faulty variant: the errors in the order the walk produced them.
CollectInDocumentOrder(st, rules) == st.emitted

\* [error for visitor in visitors for error in visitor.errors]
CollectErrors(st, rules) == Concat([i \in 1..Len(rules) |-> st.errors[rules[i]]])

default_validator(schema, document, vars_arg) ==
    LET sched == Schedule(document, VisitorList("TypeInfo", SPECIFIED_RULES))
    IN CollectErrors(Visit(document, FreshVisitors(NoVisitors), sched), SPECIFIED_RULES)

\* Validators a consumer may supply: "reject" reports two errors on every
\* document, "check_vars" reports one error for each variable it is given.
CustomValidators == {"reject", "check_vars"}

NoVars == [given |-> FALSE, values |-> <<>>]

CustomErrors(v, schema, document, vars_arg) ==
    IF v = "reject"
    THEN <<Err("ValidationError", "reject", 1), Err("ValidationError", "reject", 2)>>
    ELSE [i \in 1..Len(vars_arg.values) |-> Err("ValidationError", "check_vars", i)]

CallValidator(v, schema, document, vars_arg) ==
    IF v = "default_validator"
    THEN default_validator(schema, document, vars_arg)
    ELSE CustomErrors(v, schema, document, vars_arg)

\* A faulty variant: the supplied validators are run after the default one.
ValidatorsAppended(validators_arg) ==
    <<"default_validator">> \o validators_arg.list

\* if validators is None: validators = [default_validator]
EffectiveValidators(validators_arg) ==
    IF ~validators_arg.given THEN <<"default_validator">> ELSE validators_arg.list

\* The calls validate_ast makes, in order.
ValidatorCalls(validators_arg, vars_arg) ==
    LET vs == EffectiveValidators(validators_arg)
    IN [i \in 1..Len(vs) |-> [fn |-> "validator", who |-> vs[i], vars |-> vars_arg]]

\* ValidationResult([error for validator in validators for error in validator(...)])
validate_ast(schema, document, validators_arg, vars_arg) ==
    LET vs == EffectiveValidators(validators_arg)
    IN [errors |-> Concat([i \in 1..Len(vs) |->
                             CallValidator(vs[i], schema, document, vars_arg)])]

\* ValidationResult.__bool__
ValidationOk(validation_result) == validation_result.errors = <<>>

(***************************************************************************)
(* The request pipeline (_graphql.py).                                     *)
(***************************************************************************)
NullData == [null |-> TRUE, fields |-> <<>>]
Data(fields) == [null |-> FALSE, fields |-> fields]

\* GraphQLResult(data=None, errors=None)
GraphQLResult(data, errors) == [data |-> data, errors |-> errors]
NoResult == GraphQLResult(NullData, <<>>)

Pending == [kind |-> "pending", result |-> NoResult, exc |-> None]
Returned(result) == [kind |-> "returned", result |-> result, exc |-> None]
Raised(exc) == [kind |-> "raised", result |-> NoResult, exc |-> exc]

Call(fn, who, vars_arg) == [fn |-> fn, who |-> who, vars |-> vars_arg]

RequestAsts ==
    {d \in Documents : /\ d.skip.rule = None
                        /\ ~d.repeats
                        /\ \A i \in 2..d.n : d.parent[i] = i - 1}

ValidatorsArgs ==
    {[given |-> FALSE, list |-> <<>>]}
        \cup {[given |-> TRUE, list |-> l] : l \in SeqsUpTo(CustomValidators, MaxValidators)}

VariablesArgs ==
    {NoVars} \cup {[given |-> TRUE, values |-> l] : l \in SeqsUpTo({"ok", "bad"}, MaxVars)}

\* Variable coercion: one error for each value that does not fit its type.
CoercionErrors(vars_arg) ==
    Concat([i \in 1..Len(vars_arg.values) |->
              IF vars_arg.values[i] = "bad"
              THEN <<Err("CoercionError", "variable", i)>> ELSE <<>>])

\* What running the resolvers of an operation can do: each field's resolver
\* answers or fails, and the run may be aborted by an ExecutionError after
\* the fields listed.
ExecPlans ==
    {p \in [fields : SeqsUpTo({"ok", "err"}, MaxFields), abort : BOOLEAN] :
        ~p.abort => Len(p.fields) >= 1}

FieldData(fields) == [i \in 1..Len(fields) |-> IF fields[i] = "ok" THEN "value" ELSE None]
FieldErrors(fields) ==
    Concat([i \in 1..Len(fields) |->
              IF fields[i] = "err" THEN <<Err("ResolverError", "field", i)>> ELSE <<>>])
ResolverCalls(fields) == [i \in 1..Len(fields) |-> Call("resolver", "field", NoVars)]

IdleExecutor == [plan |-> [fields |-> <<>>, abort |-> FALSE], data |-> <<>>, errors |-> <<>>]
Ran(plan) == [plan |-> plan, data |-> FieldData(plan.fields), errors |-> FieldErrors(plan.fields)]

ExecutionError == Err("ExecutionError", "executor", 0)
GraphQLSyntaxError == Err("GraphQLSyntaxError", "parser", 0)

\* A faulty variant: the variables of the request are handed to validate_ast.
VariablesPassedOn(vars_arg) == vars_arg

\* validate_ast(schema, ast, validators=validators): variables is not passed.
ValidationVariables(vars_arg) == NoVars

\* A faulty variant: execution is started whatever validation returned.
GateAlwaysOpen(validation_result) == TRUE

\* if not validation_result: return GraphQLResult(errors=...)
ValidationGate(validation_result) == ValidationOk(validation_result)

\* return GraphQLResult(errors=validation_result.errors)
OnInvalidDocument(validation_result) == GraphQLResult(NullData, validation_result.errors)

\* A faulty variant: the syntax error is dropped from the result.
OnSyntaxErrorEmpty(err) == GraphQLResult(NullData, <<>>)

\* except GraphQLSyntaxError as err: return GraphQLResult(errors=[err])
OnSyntaxError(err) == GraphQLResult(NullData, <<err>>)

\* A faulty variant: only the first coercion error is reported.
OnCoercionErrorFirst(errors) == GraphQLResult(NullData, <<Head(errors)>>)

\* except VariablesCoercionError as err: return GraphQLResult(data=None, errors=err.errors)
OnCoercionError(errors) == GraphQLResult(NullData, errors)

\* A faulty variant: the field errors collected so far are kept.
OnExecutionErrorKeep(err, ex) == GraphQLResult(NullData, ex.errors \o <<err>>)

\* do_graphql: except ExecutionError as err:
\*     return GraphQLResult(data=None, errors=[err])
OnExecutionError(err, ex) == GraphQLResult(NullData, <<err>>)

\* A faulty variant: the partial data of the aborted run is handed out.
OnAwaitExecutionErrorPartial(err, ex) == GraphQLResult(Data(ex.data), <<err>>)

\* graphql, around the await: except ExecutionError as err:
\*     return GraphQLResult(data=None, errors=[err])
OnAwaitExecutionError(err, ex) == GraphQLResult(NullData, <<err>>)

\* The executor's own result: GraphQLResult(data, errors collected).
ExecutionResult(ex) == GraphQLResult(Data(ex.data), ex.errors)

\* A faulty variant: schema.validate() inside the try block, its error reported.
SchemaErrorReported == Returned(GraphQLResult(NullData, <<Err("SchemaError", "schema", 0)>>))

\* schema.validate() is called before the try block: its error escapes.
OnSchemaError == Raised("SchemaError")

\* graphql_sync: the default executor is synchronous; graphql: AsyncExecutor.
ExecutorCls(e) == IF e = "graphql" THEN "AsyncExecutor" ELSE "Executor"

ReqInit ==
    /\ entry \in {"graphql_sync", "graphql"}
    /\ schema_valid \in BOOLEAN
    /\ validators \in ValidatorsArgs
    /\ variables \in VariablesArgs
    /\ pc = "schema_validate"
    /\ ast = NoAst
    /\ trace = <<>>
    /\ executor = IdleExecutor
    /\ outcome = Pending

\* schema.validate()
SchemaValidate ==
    /\ pc = "schema_validate"
    /\ IF schema_valid
       THEN pc' = "parse" /\ outcome' = outcome
       ELSE pc' = "done" /\ outcome' = OnSchemaError
    /\ UNCHANGED <<entry, schema_valid, validators, variables, ast, trace, executor>>
    /\ UNCHANGED notReq

\* ast = parse(document, allow_type_system=False)
Parse ==
    /\ pc = "parse"
    /\ trace' = Append(trace, Call("parse", "parser", NoVars))
    /\ \/ /\ pc' = "done"
          /\ outcome' = Returned(OnSyntaxError(GraphQLSyntaxError))
          /\ ast' = ast
       \/ /\ pc' = "validate"
          /\ ast' \in RequestAsts
          /\ outcome' = outcome
    /\ UNCHANGED <<entry, schema_valid, validators, variables, executor>>
    /\ UNCHANGED notReq

\* validation_result = validate_ast(schema, ast, validators=validators)
Validate ==
    /\ pc = "validate"
    /\ LET vars_arg == ValidationVariables(variables)
           validation_result == validate_ast("schema", ast, validators, vars_arg)
       IN /\ trace' = trace \o ValidatorCalls(validators, vars_arg)
          /\ IF ValidationGate(validation_result)
             THEN pc' = "execute" /\ outcome' = outcome
             ELSE pc' = "done" /\ outcome' = Returned(OnInvalidDocument(validation_result))
    /\ UNCHANGED <<entry, schema_valid, validators, variables, ast, executor>>
    /\ UNCHANGED notReq

\* return execute(schema, ast, variables=variables, ...): variables are
\* coerced first; the synchronous executor then runs the operation to its
\* end, the asynchronous one selects the operation and hands back a
\* deferred result.
Execute ==
    /\ pc = "execute"
    /\ LET started == Append(trace, Call("execute", ExecutorCls(entry), variables))
       IN IF CoercionErrors(variables) # <<>>
          THEN /\ trace' = started
               /\ executor' = executor
               /\ pc' = "done"
               /\ outcome' = Returned(OnCoercionError(CoercionErrors(variables)))
          ELSE \E plan \in ExecPlans :
                 IF ExecutorCls(entry) = "Executor"
                 THEN /\ trace' = started \o ResolverCalls(plan.fields)
                      /\ executor' = Ran(plan)
                      /\ pc' = "done"
                      /\ outcome' = IF plan.abort
                                    THEN Returned(OnExecutionError(ExecutionError, Ran(plan)))
                                    ELSE Returned(ExecutionResult(Ran(plan)))
                 ELSE IF plan.abort /\ plan.fields = <<>>
                 THEN /\ trace' = started
                      /\ executor' = Ran(plan)
                      /\ pc' = "done"
                      /\ outcome' = Returned(OnExecutionError(ExecutionError, Ran(plan)))
                 ELSE /\ trace' = started
                      /\ executor' = [IdleExecutor EXCEPT !.plan = plan]
                      /\ pc' = "await"
                      /\ outcome' = outcome
    /\ UNCHANGED <<entry, schema_valid, validators, variables, ast>>
    /\ UNCHANGED notReq

\* graphql: await unwrap_coro(do_graphql(...)); the resolvers run while the
\* deferred result is awaited.
Await ==
    /\ pc = "await"
    /\ LET plan == executor.plan
       IN /\ trace' = trace \o ResolverCalls(plan.fields)
          /\ executor' = Ran(plan)
          /\ outcome' = IF plan.abort
                        THEN Returned(OnAwaitExecutionError(ExecutionError, Ran(plan)))
                        ELSE Returned(ExecutionResult(Ran(plan)))
    /\ pc' = "done"
    /\ UNCHANGED <<entry, schema_valid, validators, variables, ast>>
    /\ UNCHANGED notReq

ReqNext == SchemaValidate \/ Parse \/ Validate \/ Execute \/ Await

(***************************************************************************)
(* validate_ast with the default rules, one visitor callback per step.     *)
(***************************************************************************)
DefaultSchedule(doc) == Schedule(doc, VisitorList("TypeInfo", SPECIFIED_RULES))

ValInit ==
    /\ vdoc \in Documents
    /\ vst = NoVisitors
    /\ vpos = 0
    /\ vresults = <<>>

\* validate_ast(schema, document) -> default_validator: new visitors.
BeginCall ==
    /\ vpos = 0
    /\ Len(vresults) < MaxCalls
    /\ vst' = FreshVisitors(vst)
    /\ vpos' = 1
    /\ UNCHANGED <<vdoc, vresults>>
    /\ UNCHANGED notVal

\* validator.visit(document): the next callback of the walk.
DeliverNext ==
    /\ vpos \in 1..Len(DefaultSchedule(vdoc))
    /\ vst' = Deliver(vdoc, vst, DefaultSchedule(vdoc)[vpos])
    /\ vpos' = vpos + 1
    /\ UNCHANGED <<vdoc, vresults>>
    /\ UNCHANGED notVal

\* return [error for visitor in visitors for error in visitor.errors]
EndCall ==
    /\ vpos = Len(DefaultSchedule(vdoc)) + 1
    /\ vresults' = Append(vresults, CollectErrors(vst, SPECIFIED_RULES))
    /\ vpos' = 0
    /\ UNCHANGED <<vdoc, vst>>
    /\ UNCHANGED notVal

ValNext == BeginCall \/ DeliverNext \/ EndCall

(***************************************************************************)
(* Type objects (schema/types.py): NonNullType, ListType, Field, Argument  *)
(* and InputField all hold their type as _ltype (what the constructor was  *)
(* given: a type or a thunk) and _type (the resolved type, None until the  *)
(* first read).                                                            *)
(***************************************************************************)
NamedTypes == {"Int"}
Classes == {"NonNullType", "ListType", "Field", "Argument", "InputField"}
WrappingClasses == {"NonNullType", "ListType"}

NoType == [k |-> "none", name |-> None, id |-> 0]
NamedRef(name) == [k |-> "named", name |-> name, id |-> 0]
ObjRef(i) == [k |-> "obj", name |-> None, id |-> i]

\* The types that exist: the named types and the wrapping types of the heap.
TypesOf(h) ==
    {NamedRef(nm) : nm \in NamedTypes}
        \cup {ObjRef(i) : i \in {j \in 1..Len(h) : h[j].cls \in WrappingClasses}}

\* A constructor argument: a type, or a thunk returning one.
LazyArgs(h) == [lazy : BOOLEAN, to : TypesOf(h)]

\* lazy(x): call x when it is callable, else x itself.
lazy(arg) == arg.to

\* isinstance(type_, NonNullType): a thunk is no NonNullType.
IsNonNullType(h, arg) ==
    /\ ~arg.lazy
    /\ arg.to.k = "obj"
    /\ h[arg.to.id].cls = "NonNullType"

\* NonNullType.__init__: assert not isinstance(type_, NonNullType)
ConstructorAccepts(h, cls, arg) == cls = "NonNullType" => ~IsNonNullType(h, arg)

\* __init__: self._ltype = type_; self._type = None
\* (evals counts the evaluations of the thunk)
NewObject(cls, arg) == [cls |-> cls, ltype |-> arg, type |-> NoType, evals |-> 0]

\* A faulty variant: the resolved type is not kept.
TypeGetterNoCache(o) ==
    [o EXCEPT !.evals = @ + (IF o.ltype.lazy THEN 1 ELSE 0)]

\* @property type: if self._type is None: self._type = lazy(self._ltype)
TypeGetter(o) ==
    IF o.type = NoType
    THEN [o EXCEPT !.type = lazy(o.ltype),
                   !.evals = @ + (IF o.ltype.lazy THEN 1 ELSE 0)]
    ELSE o

\* return self._type
TypeRead(o) == TypeGetter(o).type

\* @type.setter: self._type = self._ltype = type_
TypeSetter(o, t) == [o EXCEPT !.type = t, !.ltype = [lazy |-> FALSE, to |-> t]]

\* Whether following the inner types from t leads to object i.
RECURSIVE Reaches(_, _, _, _)
Reaches(h, t, i, fuel) ==
    /\ t.k = "obj"
    /\ \/ t.id = i
       \/ fuel > 0 /\ Reaches(h, h[t.id].ltype.to, i, fuel - 1)

NoRead == [obj |-> 0, value |-> NoType, n |-> 0]

TypInit ==
    /\ heap = <<>>
    /\ last_read = NoRead

\* cls(type_) with type_ a type or a thunk
Construct ==
    /\ Len(heap) < MaxObjs
    /\ \E cls \in Classes, arg \in LazyArgs(heap) :
         /\ ConstructorAccepts(heap, cls, arg)
         /\ heap' = Append(heap, NewObject(cls, arg))
    /\ last_read' = last_read
    /\ UNCHANGED notTyp

\* x = obj.type; last_read keeps the object, the value returned and how
\* many reads of that object in a row returned it.
ReadType ==
    /\ \E i \in 1..Len(heap) :
         /\ heap' = [heap EXCEPT ![i] = TypeGetter(@)]
         /\ last_read' =
              [obj |-> i, value |-> TypeRead(heap[i]),
               n |-> IF last_read.obj = i /\ last_read.value = TypeRead(heap[i])
                     THEN IF last_read.n < MaxReads THEN last_read.n + 1 ELSE MaxReads
                     ELSE 1]
    /\ UNCHANGED notTyp

\* obj.type = t (t does not wrap obj itself); the last read is forgotten.
SetType ==
    /\ \E i \in 1..Len(heap), t \in TypesOf(heap) :
         /\ ~Reaches(heap, t, i, Len(heap))
         /\ heap' = [heap EXCEPT ![i] = TypeSetter(@, t)]
    /\ last_read' = NoRead
    /\ UNCHANGED notTyp

TypNext == Construct \/ ReadType \/ SetType

(***************************************************************************)
(* Argument and InputField (schema/types.py): both keep has_default_value  *)
(* and _default_value, and offer default_value as a property with a        *)
(* getter, a setter and a deleter.                                         *)
(***************************************************************************)
ArgClasses == {"Argument", "InputField"}

\* _UNSET = object(): the sentinel for "no default"
UNSET == "_UNSET"

\* The default values a caller can give: None or some value.
DefaultValues == {None, "v"}

\* The types given to an argument: Int or NonNullType(Int).
ArgTypes == {[cls |-> "ScalarType", name |-> "Int"],
             [cls |-> "NonNullType", name |-> "Int!"]}

\* __init__(name, type_, default_value=_UNSET):
\*   self.has_default_value = default_value is not _UNSET
\*   self._default_value = default_value
NewArgument(cls, type_, default_value) ==
    [cls |-> cls, type |-> type_,
     has_default_value |-> default_value # UNSET,
     default_value |-> default_value]

\* @property default_value: raise AttributeError if self._default_value is
\* _UNSET, else return self._default_value
DefaultValueGetter(o) ==
    IF o.default_value = UNSET
    THEN [kind |-> "raise", value |-> "AttributeError"]
    ELSE [kind |-> "return", value |-> o.default_value]

\* @default_value.setter: self._default_value = value
DefaultValueSetter(o, value) == [o EXCEPT !.default_value = value]

\* @default_value.deleter: self._default_value = _UNSET
DefaultValueDeleter(o) == [o EXCEPT !.default_value = UNSET]

\* @property required:
\*   isinstance(self.type, NonNullType) and self._default_value is _UNSET
required(o) == o.type.cls = "NonNullType" /\ o.default_value = UNSET

NoArgRead == [obj |-> 0, kind |-> "none", value |-> None]

ArgInit ==
    /\ args = <<>>
    /\ arg_read = NoArgRead

\* Argument(name, type_) or Argument(name, type_, default_value), and the
\* same for InputField
ArgConstruct ==
    /\ Len(args) < MaxArgs
    /\ \E cls \in ArgClasses, t \in ArgTypes, d \in DefaultValues \cup {UNSET} :
         args' = Append(args, NewArgument(cls, t, d))
    /\ arg_read' = arg_read
    /\ UNCHANGED notArg

\* arg.default_value = value
ArgAssign ==
    /\ \E i \in 1..Len(args), d \in DefaultValues :
         args' = [args EXCEPT ![i] = DefaultValueSetter(@, d)]
    /\ arg_read' = NoArgRead
    /\ UNCHANGED notArg

\* del arg.default_value
ArgDelete ==
    /\ \E i \in 1..Len(args) :
         args' = [args EXCEPT ![i] = DefaultValueDeleter(@)]
    /\ arg_read' = NoArgRead
    /\ UNCHANGED notArg

\* x = arg.default_value, returning the default or raising AttributeError
ArgRead ==
    /\ \E i \in 1..Len(args) :
         arg_read' = [obj |-> i,
                      kind |-> DefaultValueGetter(args[i]).kind,
                      value |-> DefaultValueGetter(args[i]).value]
    /\ args' = args
    /\ UNCHANGED notArg

ArgNext == ArgConstruct \/ ArgAssign \/ ArgDelete \/ ArgRead

(***************************************************************************)
(* EnumType (schema/types.py): the list values, the table _values by name  *)
(* (by_name here) and the table _reverse_values by internal value          *)
(* (by_value here), all three built by _set_values.                        *)
(***************************************************************************)
EnumNames == {"A", "B"}

\* Internal values: a hashable one and an unhashable one (such as a list).
InternalValues == {"x", "[]"}
Hashable(value) == value # "[]"

\* A definition of a value: a name alone, or a (name, value) tuple whose
\* value is hashable, as the class requires.
EnumValueDefs ==
    [name : EnumNames,
     value : {v \in InternalValues : Hashable(v)} \cup {UNSET}]

\* EnumValue.from_def and EnumValue.__init__:
\*   self.value = value if value is not _UNSET else name
from_def(definition) ==
    [name |-> definition.name,
     value |-> IF definition.value # UNSET THEN definition.value
               ELSE definition.name]

\* self.values = []; self._values = {}; self._reverse_values = {}
EmptyEnum == [values |-> <<>>, by_name |-> <<>>, by_value |-> <<>>]

\* A faulty variant: a name already in the table is accepted.
NameAcceptedTwice(table, name) == TRUE

\* assert v.name not in self._values
NameAccepted(table, name) == name \notin DOMAIN table

\* The loop of _set_values over the definitions left.
RECURSIVE set_values(_, _)
set_values(self, values) ==
    IF values = <<>> THEN [ok |-> TRUE, error |-> None, enum |-> self]
    ELSE LET v == from_def(Head(values)) IN
         IF ~NameAccepted(self.by_name, v.name)
         THEN [ok |-> FALSE, error |-> "AssertionError", enum |-> self]
         ELSE set_values([values |-> Append(self.values, v),
                          by_value |-> (v.value :> v) @@ self.by_value,
                          by_name |-> (v.name :> v) @@ self.by_name],
                         Tail(values))

\* A faulty variant: the name is returned in place of the internal value.
get_value_as_name(self, name) ==
    IF name \in DOMAIN self.by_name
    THEN [kind |-> "return", value |-> self.by_name[name].name]
    ELSE [kind |-> "raise", value |-> "UnknownEnumValue"]

\* try: return self._values[name].value
\* except KeyError: raise UnknownEnumValue
get_value(self, name) ==
    IF name \in DOMAIN self.by_name
    THEN [kind |-> "return", value |-> self.by_name[name].value]
    ELSE [kind |-> "raise", value |-> "UnknownEnumValue"]

\* try: return self._reverse_values[value].name
\* except KeyError: raise UnknownEnumValue
\* (an unhashable value makes the dict lookup raise TypeError)
get_name(self, value) ==
    IF ~Hashable(value) THEN [kind |-> "raise", value |-> "TypeError"]
    ELSE IF value \in DOMAIN self.by_value
    THEN [kind |-> "return", value |-> self.by_value[value].name]
    ELSE [kind |-> "raise", value |-> "UnknownEnumValue"]

NoEnumCall ==
    [op |-> "none", on |-> 0, defs |-> <<>>, arg |-> None,
     kind |-> "none", value |-> None]

EnumInit ==
    /\ enums = <<>>
    /\ enum_call = NoEnumCall

\* EnumType(name, values): the object exists when _set_values returns.
\* One enum is followed; constructions that fail can go on.
EnumConstruct ==
    /\ \E defs \in SeqsUpTo(EnumValueDefs, MaxEnumValues) :
         LET r == set_values(EmptyEnum, defs) IN
         /\ r.ok => enums = <<>>
         /\ enums' = IF r.ok THEN Append(enums, r.enum) ELSE enums
         /\ enum_call' =
              [op |-> "EnumType", on |-> IF r.ok THEN Len(enums) + 1 ELSE 0,
               defs |-> defs, arg |-> None,
               kind |-> IF r.ok THEN "return" ELSE "raise",
               value |-> r.error]
    /\ UNCHANGED notEnum

\* enum.get_value(name)
EnumGetValue ==
    /\ \E i \in 1..Len(enums), name \in EnumNames :
         enum_call' =
             [op |-> "get_value", on |-> i, defs |-> <<>>, arg |-> name,
              kind |-> get_value(enums[i], name).kind,
              value |-> get_value(enums[i], name).value]
    /\ enums' = enums
    /\ UNCHANGED notEnum

\* enum.get_name(value)
EnumGetName ==
    /\ \E i \in 1..Len(enums), value \in EnumNames \cup InternalValues :
         enum_call' =
             [op |-> "get_name", on |-> i, defs |-> <<>>, arg |-> value,
              kind |-> get_name(enums[i], value).kind,
              value |-> get_name(enums[i], value).value]
    /\ enums' = enums
    /\ UNCHANGED notEnum

EnumNext == EnumConstruct \/ EnumGetValue \/ EnumGetName

(***************************************************************************)
(* ScalarType (schema/types.py): serialize, parse and parse_literal call   *)
(* the functions the user gave to the constructor.  A user function is     *)
(* modelled by what a call of it does: return a value or raise.            *)
(***************************************************************************)
UserExceptions == {"ValueError", "TypeError", "AttributeError", "KeyError"}
UserFunctions == {"ok"} \cup UserExceptions

\* ScalarType(name, serialize, parse, parse_literal=None)
ScalarTypes ==
    [serialize : UserFunctions, parse : UserFunctions,
     parse_literal : UserFunctions \cup {None}]

\* The variables argument of parse_literal: None, an empty map, a map.
LiteralVariables == {None, "{}", "{v}"}

\* variables or {}
OrEmpty(vars_arg) == IF vars_arg \in {None, "{}"} THEN "{}" ELSE vars_arg

\* Calling the user function f, given as fn, with arg (and vars_arg, "-"
\* when the function takes none): called records the call, value names the
\* function whose result it is, cause lists the chain of causes.
UserCall(f, fn, arg, vars_arg) ==
    [kind |-> IF f = "ok" THEN "return" ELSE "raise",
     value |-> IF f = "ok" THEN fn ELSE f,
     cause |-> <<>>, nodes |-> <<>>,
     called |-> <<[fn |-> fn, arg |-> arg, variables |-> vars_arg]>>]

\* py_gql.exc: the typed errors of a scalar are ValueErrors.
IsValueError(exc) ==
    exc \in {"ValueError", "ScalarParsingError", "ScalarSerializationError"}

\* A faulty variant: TypeError is not caught.
CaughtValueErrorOnly(exc) == exc = "ValueError"

\* except (ValueError, TypeError) as err
Caught(exc) == IsValueError(exc) \/ exc = "TypeError"

\* try: ... except (ValueError, TypeError) as err:
\*     raise typed(str(err), nodes) from err
Typed(result, typed, nodes) ==
    IF result.kind = "raise" /\ Caught(result.value)
    THEN [result EXCEPT !.value = typed, !.cause = <<result.value>> \o @,
                        !.nodes = nodes]
    ELSE result

\* ScalarType.serialize
serialize(self) ==
    Typed(UserCall(self.serialize, "serialize", "value", "-"),
          "ScalarSerializationError", <<>>)

\* ScalarType.parse
parse(self, value) ==
    Typed(UserCall(self.parse, "parse", value, "-"), "ScalarParsingError", <<>>)

\* A faulty variant: the AttributeError of the user's function is not caught.
parse_literal_no_fallback(self, node, vars_arg) ==
    Typed(IF self.parse_literal # None
          THEN UserCall(self.parse_literal, "parse_literal", node,
                        OrEmpty(vars_arg))
          ELSE parse(self, "node.value"),
          "ScalarParsingError", <<node>>)

\* ScalarType.parse_literal: the inner try calls the user's parse_literal,
\* or self.parse when none was given; on AttributeError self.parse answers.
parse_literal(self, node, vars_arg) ==
    LET inner == IF self.parse_literal # None
                 THEN UserCall(self.parse_literal, "parse_literal", node,
                               OrEmpty(vars_arg))
                 ELSE parse(self, "node.value")
        again == parse(self, "node.value")
        handled == IF inner.kind = "raise" /\ inner.value = "AttributeError"
                   THEN [again EXCEPT !.called = inner.called \o @]
                   ELSE inner
    IN Typed(handled, "ScalarParsingError", <<node>>)

NoScalarCall ==
    [op |-> "none", kind |-> "none", value |-> None, cause |-> <<>>,
     nodes |-> <<>>, called |-> <<>>, variables |-> None]

ScalarInit ==
    /\ scalar \in ScalarTypes
    /\ scalar_call = NoScalarCall

\* scalar.serialize(value)
ScalarSerialize ==
    /\ scalar_call' = [op |-> "serialize", variables |-> None] @@ serialize(scalar)
    /\ scalar' = scalar
    /\ UNCHANGED notSca

\* scalar.parse(value)
ScalarParse ==
    /\ scalar_call' = [op |-> "parse", variables |-> None] @@ parse(scalar, "value")
    /\ scalar' = scalar
    /\ UNCHANGED notSca

\* scalar.parse_literal(node, variables)
ScalarParseLiteral ==
    /\ \E variables_arg \in LiteralVariables :
           scalar_call' = [op |-> "parse_literal", variables |-> variables_arg]
                              @@ parse_literal(scalar, "node", variables_arg)
    /\ scalar' = scalar
    /\ UNCHANGED notSca

ScalarNext == ScalarSerialize \/ ScalarParse \/ ScalarParseLiteral

(***************************************************************************)
(* A schema after construction: the attributes of its types, fields and    *)
(* arguments that the type classes let a caller assign (schema/types.py),  *)
(* schema.validate() and requests through do_graphql (_graphql.py).        *)
(***************************************************************************)
\* The assignable attributes: ObjectType.fields and .interfaces,
\* UnionType.types, Field.type and .arguments, Argument.default_value.
Attributes ==
    {"fields", "interfaces", "types", "type", "arguments", "default_value"}

\* What a caller can assign to each of them.
AttrValues(attr) ==
    CASE attr = "fields" -> {<<"x">>, <<"x", "y">>}
      [] attr = "interfaces" -> {<<>>, <<"Node">>}
      [] attr = "types" -> {<<"A">>, <<"A", "B">>}
      [] attr = "type" -> {"Int", "String"}
      [] attr = "arguments" -> {<<>>, <<"a">>}
      [] attr = "default_value" -> {UNSET, None, "v"}

\* The schema as built.
BuiltSchema ==
    [fields |-> <<"x">>, interfaces |-> <<>>, types |-> <<"A">>,
     type |-> "Int", arguments |-> <<"a">>, default_value |-> UNSET]

\* The property setters: self._fields = self._source_fields = fields, and
\* the same for interfaces, types, type, arguments and default_value; none
\* of them looks at whether the schema was validated.
Setter(self, attr, value) == [self EXCEPT ![attr] = value]

SchInit ==
    /\ sch = BuiltSchema
    /\ sch_validated = FALSE
    /\ sch_requests = 0

\* obj.fields = ..., obj.interfaces = ..., union.types = ..., field.type = ...,
\* field.arguments = ..., arg.default_value = ... or del arg.default_value
SchAssign ==
    /\ \E attr \in Attributes : \E value \in AttrValues(attr) :
         sch' = Setter(sch, attr, value)
    /\ UNCHANGED <<sch_validated, sch_requests>>
    /\ UNCHANGED notSch

\* schema.validate()
SchValidate ==
    /\ sch_validated' = TRUE
    /\ UNCHANGED <<sch, sch_requests>>
    /\ UNCHANGED notSch

\* do_graphql(schema, document): schema.validate(), then parse, validate_ast
\* and execute, which read the schema.
SchRequest ==
    /\ sch_requests < MaxRequests
    /\ sch_requests' = sch_requests + 1
    /\ sch_validated' = TRUE
    /\ sch' = sch
    /\ UNCHANGED notSch

SchNext == SchAssign \/ SchValidate \/ SchRequest

(***************************************************************************)
(* Execution of one operation by an executor (py_gql.execution, described  *)
(* by the specification: field execution, value completion, null           *)
(* propagation, the sequential and the cooperative executor).  A request   *)
(* selects root fields a, b, ...; a root field is a leaf or an object with *)
(* one child x.                                                            *)
(***************************************************************************)
Keys == <<"a", "b", "c", "d">>
Executors == {"SyncExecutor", "AsyncExecutor"}

\* A child field: its type is NonNull or not, its resolver returns null or
\* a value.
ChildSpecs == [nonnull : BOOLEAN, returns : {"null", "value"}]
NoChild == [nonnull |-> FALSE, returns |-> "value"]

\* A root field: its type is NonNull-terminated or not; its resolver
\* returns null, the incremented shared counter or an object, at once or as
\* a deferred value.
FieldSpecs ==
    {f \in [nonnull : BOOLEAN, returns : {"null", "inc", "object"},
            deferred : BOOLEAN, child : ChildSpecs] :
        /\ f.returns # "object" => f.child = NoChild
        /\ f.returns = "object" => ~f.deferred}

ExecRequests ==
    [op : {"query", "mutation"}, executor : Executors,
     fields : SeqsUpTo(FieldSpecs, MaxRootFields) \ {<<>>}]

\* JSON values: null, an integer, an object {x: null} or {x: value}.
JNull == [k |-> "null", n |-> 0, x |-> "none"]
JInt(n) == [k |-> "int", n |-> n, x |-> "none"]
JObject(x) == [k |-> "object", n |-> 0, x |-> x]

\* The field error of a null at a NonNull position.
FieldError(path) ==
    [message |-> "Cannot return null for non-nullable field", path |-> path]

\* Invoke the resolver: inc increments the shared counter and returns it.
CallResolver(f, n) ==
    CASE f.returns = "inc" -> [value |-> JInt(n + 1), counter |-> n + 1]
      [] f.returns = "null" -> [value |-> JNull, counter |-> n]
      [] f.returns = "object" -> [value |-> JObject("none"), counter |-> n]

\* A faulty variant: the null is left in place and no error is recorded.
NullLeftInPlace(path) == [value |-> JNull, errors |-> <<>>, bubble |-> FALSE]

\* NonNull(T) completed to null: raise a field error and propagate null to
\* the parent.
OnNullForNonNull(path) ==
    [value |-> JNull, errors |-> <<FieldError(path)>>, bubble |-> TRUE]

\* Completion of a value against the field's type: [value, errors, bubble],
\* bubble saying that the null goes on to the parent.
CompleteChild(key, c) ==
    IF c.returns = "null"
    THEN IF c.nonnull THEN OnNullForNonNull(<<key, "x">>)
         ELSE [value |-> JNull, errors |-> <<>>, bubble |-> FALSE]
    ELSE [value |-> JInt(0), errors |-> <<>>, bubble |-> FALSE]

CompleteValue(key, f, resolved) ==
    CASE resolved.k = "null" ->
             IF f.nonnull THEN OnNullForNonNull(<<key>>)
             ELSE [value |-> JNull, errors |-> <<>>, bubble |-> FALSE]
      [] resolved.k = "int" ->
             [value |-> resolved, errors |-> <<>>, bubble |-> FALSE]
      [] resolved.k = "object" ->
             LET c == CompleteChild(key, f.child) IN
             IF c.bubble
             THEN [value |-> JNull, errors |-> c.errors, bubble |-> f.nonnull]
             ELSE [value |-> JObject(c.value.k), errors |-> <<>>, bubble |-> FALSE]

\* A faulty variant: the cooperative executor starts the root fields of a
\* mutation eagerly, as it does for a query.
MayStartEagerly(req, fs, i) ==
    req.executor = "SyncExecutor" => \A j \in 1..(i - 1) : fs[j].status = "done"

\* Sequential executor: selection order.  Cooperative executor: sibling
\* fields are launched eagerly, but the root fields of a mutation wait for
\* the completion of the one before.
MayStart(req, fs, i) ==
    (req.executor = "SyncExecutor" \/ req.op = "mutation")
        => \A j \in 1..(i - 1) : fs[j].status = "done"

\* A faulty variant: the sequential executor waits for deferred values.
RejectsNothing(executor_cls) == FALSE

\* The sequential executor rejects a deferred value with ExecutionError.
RejectsDeferred(executor_cls) == executor_cls = "SyncExecutor"

\* The final result: data is null when a null reached the root.
Assemble(fs, errors) ==
    GraphQLResult(
        IF \E i \in 1..Len(fs) : fs[i].bubble THEN NullData
        ELSE Data([i \in 1..Len(fs) |-> fs[i].value]),
        errors)

PendingField ==
    [status |-> "pending", resolved |-> JNull, value |-> JNull, bubble |-> FALSE]
Event(ev, i) == [ev |-> ev, field |-> i]
XPending == [kind |-> "pending", awaitable |-> FALSE, result |-> NoResult, exc |-> None]
IdleRequest == [op |-> "query", executor |-> "SyncExecutor", fields |-> <<>>]

\* Executor.execute_request(schema, document) is called.
ExeInit ==
    /\ xreq \in ExecRequests
    /\ xfields = [i \in 1..Len(xreq.fields) |-> PendingField]
    /\ counter = 0
    /\ xlog = <<>>
    /\ xerrors = <<>>
    /\ xout = XPending

\* Field i is done: its completed value and its errors are kept.
Done(fs, i, c) ==
    [fs EXCEPT ![i] = [@ EXCEPT !.status = "done", !.value = c.value,
                                !.bubble = c.bubble]]

\* The resolver of a root field is invoked; an immediate value is completed
\* at once, a deferred one is rejected or awaited.
ExecResolve ==
    /\ xout.kind = "pending"
    /\ \E i \in 1..Len(xfields) :
         LET f == xreq.fields[i]
             r == CallResolver(f, counter)
             c == CompleteValue(Keys[i], f, r.value)
         IN
         /\ xfields[i].status = "pending"
         /\ MayStart(xreq, xfields, i)
         /\ counter' = r.counter
         /\ IF f.deferred /\ RejectsDeferred(xreq.executor)
            THEN /\ xout' = [XPending EXCEPT !.kind = "raised", !.exc = "ExecutionError"]
                 /\ xlog' = Append(xlog, Event("start", i))
                 /\ UNCHANGED <<xfields, xerrors>>
            ELSE IF f.deferred
            THEN /\ xfields' = [xfields EXCEPT ![i] =
                                   [@ EXCEPT !.status = "awaiting", !.resolved = r.value]]
                 /\ xlog' = Append(xlog, Event("start", i))
                 /\ UNCHANGED <<xout, xerrors>>
            ELSE /\ xfields' = Done(xfields, i, c)
                 /\ xerrors' = xerrors \o c.errors
                 /\ xlog' = xlog \o <<Event("start", i), Event("done", i)>>
                 /\ xout' = xout
    /\ xreq' = xreq
    /\ UNCHANGED notExe

\* The deferred value of a root field arrives and is completed.
ExecAwait ==
    /\ xout.kind = "pending"
    /\ \E i \in 1..Len(xfields) :
         LET c == CompleteValue(Keys[i], xreq.fields[i], xfields[i].resolved) IN
         /\ xfields[i].status = "awaiting"
         /\ xfields' = Done(xfields, i, c)
         /\ xerrors' = xerrors \o c.errors
         /\ xlog' = xlog \o <<Event("awaited", i), Event("done", i)>>
    /\ UNCHANGED <<xreq, counter, xout>>
    /\ UNCHANGED notExe

\* Every root field is done: execute_request hands out the result, which
\* the cooperative executor may wrap in an awaitable.
ExecFinish ==
    /\ xout.kind = "pending"
    /\ \A i \in 1..Len(xfields) : xfields[i].status = "done"
    /\ \E aw \in (IF xreq.executor = "SyncExecutor" THEN {FALSE} ELSE BOOLEAN) :
         xout' = [kind |-> "returned", awaitable |-> aw,
                  result |-> Assemble(xfields, xerrors), exc |-> None]
    /\ UNCHANGED <<xreq, xfields, counter, xlog, xerrors>>
    /\ UNCHANGED notExe

ExeNext == ExecResolve \/ ExecAwait \/ ExecFinish

(***************************************************************************)
(* GraphQLType.__eq__ (schema/types.py).  A type is a named type or a      *)
(* chain of wrapping types around one; two operands a and b are two such   *)
(* chains, the chain of b ending at a named type or at an object of the    *)
(* chain of a (which b then shares).                                       *)
(***************************************************************************)
ScalarNames == {"Int", "String"}

\* One wrapping: the class, and whether the inner type is given as a thunk.
Wrappings == [cls : WrappingClasses, lazy : BOOLEAN]

\* cls(base) for each wrapping of own, innermost first, on top of heap h.
RECURSIVE Wrapped(_, _, _)
Wrapped(h, base, own) ==
    IF own = <<>> THEN [heap |-> h, top |-> base]
    ELSE Wrapped(Append(h, NewObject(Head(own).cls,
                                     [lazy |-> Head(own).lazy, to |-> base])),
                 ObjRef(Len(h) + 1), Tail(own))

\* Every object of the heap passed the assertion of its constructor.
WellBuilt(h) ==
    \A i \in 1..Len(h) : ConstructorAccepts(h, h[i].cls, h[i].ltype)

\* The types the second operand can be built on: a named type, or an
\* object of the first operand's chain.
Bases(own) ==
    {NamedRef(nm) : nm \in ScalarNames} \cup {ObjRef(i) : i \in 1..Len(own)}

\* The named types and their classes.
NamedClass ==
    [Int |-> "ScalarType", String |-> "ScalarType", Color |-> "EnumType",
     Point |-> "InputObjectType", Query |-> "ObjectType",
     Node |-> "InterfaceType", Pet |-> "UnionType"]

\* type(t): the class of a type object.
ClassOf(h, t) == IF t.k = "obj" THEN h[t.id].cls ELSE NamedClass[t.name]

\* A faulty variant: the classes of the two wrapping types are not compared.
RECURSIVE TypeEqIgnoringClass(_, _, _)
TypeEqIgnoringClass(h, self, lhs) ==
    \/ self = lhs
    \/ /\ ClassOf(h, self) \in WrappingClasses
       /\ ClassOf(h, lhs) \in WrappingClasses
       /\ TypeEqIgnoringClass(h, TypeRead(h[self.id]), TypeRead(h[lhs.id]))

\* __eq__: self is lhs or (isinstance(self, (ListType, NonNullType))
\*         and self.__class__ == lhs.__class__ and self.type == lhs.type)
RECURSIVE TypeEq(_, _, _)
TypeEq(h, self, lhs) ==
    \/ self = lhs
    \/ /\ ClassOf(h, self) \in WrappingClasses
       /\ ClassOf(h, self) = ClassOf(h, lhs)
       /\ TypeEq(h, TypeRead(h[self.id]), TypeRead(h[lhs.id]))

\* The objects whose type property __eq__ reads.
RECURSIVE TypesRead(_, _, _)
TypesRead(h, self, lhs) ==
    IF /\ self # lhs
       /\ ClassOf(h, self) \in WrappingClasses
       /\ ClassOf(h, self) = ClassOf(h, lhs)
    THEN {self.id, lhs.id}
             \cup TypesRead(h, TypeRead(h[self.id]), TypeRead(h[lhs.id]))
    ELSE {}

\* The heap after self == lhs: the types read are resolved.
AfterEq(h, self, lhs) ==
    [i \in 1..Len(h) |->
        IF i \in TypesRead(h, self, lhs) THEN TypeGetter(h[i]) ELSE h[i]]

PyBool(b) == IF b THEN "True" ELSE "False"
NoEqCall == [ab |-> "none", ba |-> "none"]

\* Two operands: a built on a named type, b built on a named type or on
\* an object of a.
EqInit ==
    /\ \E nm \in ScalarNames, ca \in SeqsUpTo(Wrappings, MaxDepth) :
         \E base \in Bases(ca), cb \in SeqsUpTo(Wrappings, MaxDepth) :
             LET A == Wrapped(<<>>, NamedRef(nm), ca)
                 B == Wrapped(A.heap, base, cb)
             IN
             /\ WellBuilt(B.heap)
             /\ eq_heap = B.heap
             /\ eq_a = A.top
             /\ eq_b = B.top
    /\ eq_call = NoEqCall

\* a == b
EqCompare ==
    /\ eq_call.ab = "none"
    /\ eq_call' = [eq_call EXCEPT !.ab = PyBool(TypeEq(eq_heap, eq_a, eq_b))]
    /\ eq_heap' = AfterEq(eq_heap, eq_a, eq_b)
    /\ UNCHANGED <<eq_a, eq_b>>
    /\ UNCHANGED notEq

\* b == a
EqCompareBack ==
    /\ eq_call.ba = "none"
    /\ eq_call' = [eq_call EXCEPT !.ba = PyBool(TypeEq(eq_heap, eq_b, eq_a))]
    /\ eq_heap' = AfterEq(eq_heap, eq_b, eq_a)
    /\ UNCHANGED <<eq_a, eq_b>>
    /\ UNCHANGED notEq

EqNext == EqCompare \/ EqCompareBack

(***************************************************************************)
(* Field and EnumValue: the deprecated flag (schema/types.py).             *)
(***************************************************************************)
MemberNames == {"a", "b"}

\* The deprecation_reason argument: absent, the empty string, a text.
Reasons == {None, "", "use b"}

\* Python's bool() of an Optional[str].
bool(s) == s # None /\ s # ""

\* Field.__init__: the flag is the truth value of the reason.
NewField(name, deprecation_reason) ==
    [cls |-> "Field", name |-> name,
     deprecated |-> bool(deprecation_reason),
     deprecation_reason |-> deprecation_reason]

\* EnumValue.__init__: value defaults to name, the flag is "reason is not None".
NewEnumValue(name, value, deprecation_reason) ==
    [cls |-> "EnumValue", name |-> name,
     value |-> IF value # UNSET THEN value ELSE name,
     deprecated |-> deprecation_reason # None,
     deprecation_reason |-> deprecation_reason]

DepInit == members = <<>>

FieldConstruct ==
    /\ Len(members) < MaxMembers
    /\ \E name \in MemberNames, reason \in Reasons :
           members' = Append(members, NewField(name, reason))
    /\ UNCHANGED notDep

EnumValueConstruct ==
    /\ Len(members) < MaxMembers
    /\ \E name \in MemberNames, reason \in Reasons :
           members' = Append(members, NewEnumValue(name, UNSET, reason))
    /\ UNCHANGED notDep

DepNext == FieldConstruct \/ EnumValueConstruct

(***************************************************************************)
(* is_input_type, is_output_type and unwrap_type (schema/types.py), called *)
(* on a chain of wrapping types around a named type of any class.          *)
(***************************************************************************)
\* A faulty variant: one wrapping type is removed, not all of them.
unwrap_once(h, type_) ==
    IF ClassOf(h, type_) \in WrappingClasses
    THEN TypeRead(h[type_.id])
    ELSE type_

\* unwrap_type: if isinstance(type_, (ListType, NonNullType)):
\*                  return unwrap_type(type_.type)
\*              return type_
RECURSIVE unwrap_type(_, _)
unwrap_type(h, type_) ==
    IF ClassOf(h, type_) \in WrappingClasses
    THEN unwrap_type(h, TypeRead(h[type_.id]))
    ELSE type_

\* isinstance(unwrap_type(type_), (ScalarType, EnumType, InputObjectType))
is_input_type(h, type_) ==
    ClassOf(h, unwrap_type(h, type_))
        \in {"ScalarType", "EnumType", "InputObjectType"}

\* isinstance(unwrap_type(type_),
\*            (ScalarType, EnumType, ObjectType, InterfaceType, UnionType))
is_output_type(h, type_) ==
    ClassOf(h, unwrap_type(h, type_))
        \in {"ScalarType", "EnumType", "ObjectType", "InterfaceType", "UnionType"}

\* The heap after unwrap_type(type_): every type property it read is resolved.
RECURSIVE AfterUnwrap(_, _)
AfterUnwrap(h, type_) ==
    IF ClassOf(h, type_) \in WrappingClasses
    THEN AfterUnwrap([h EXCEPT ![type_.id] = TypeGetter(@)], TypeRead(h[type_.id]))
    ELSE h

NoKindCall ==
    [is_input |-> "none", is_output |-> "none", unwrapped |-> NoType,
     unwrapped_again |-> NoType]

\* A type: up to MaxDepth wrapping types around a named type.
KindInit ==
    /\ \E nm \in DOMAIN NamedClass, own \in SeqsUpTo(Wrappings, MaxDepth) :
         LET W == Wrapped(<<>>, NamedRef(nm), own)
         IN /\ WellBuilt(W.heap)
            /\ kind_heap = W.heap
            /\ kind_named = nm
            /\ kind_type = W.top
    /\ kind_call = NoKindCall

\* is_input_type(t)
KindIsInput ==
    /\ kind_call.is_input = "none"
    /\ kind_call' = [kind_call EXCEPT
                        !.is_input = PyBool(is_input_type(kind_heap, kind_type))]
    /\ kind_heap' = AfterUnwrap(kind_heap, kind_type)
    /\ UNCHANGED <<kind_named, kind_type>>
    /\ UNCHANGED notKind

\* is_output_type(t)
KindIsOutput ==
    /\ kind_call.is_output = "none"
    /\ kind_call' = [kind_call EXCEPT
                        !.is_output = PyBool(is_output_type(kind_heap, kind_type))]
    /\ kind_heap' = AfterUnwrap(kind_heap, kind_type)
    /\ UNCHANGED <<kind_named, kind_type>>
    /\ UNCHANGED notKind

\* unwrap_type(t)
KindUnwrap ==
    /\ kind_call.unwrapped = NoType
    /\ kind_call' = [kind_call EXCEPT
                        !.unwrapped = unwrap_type(kind_heap, kind_type)]
    /\ kind_heap' = AfterUnwrap(kind_heap, kind_type)
    /\ UNCHANGED <<kind_named, kind_type>>
    /\ UNCHANGED notKind

\* unwrap_type(unwrap_type(t))
KindUnwrapAgain ==
    /\ kind_call.unwrapped # NoType
    /\ kind_call.unwrapped_again = NoType
    /\ kind_call' = [kind_call EXCEPT
                        !.unwrapped_again =
                            unwrap_type(kind_heap, kind_call.unwrapped)]
    /\ kind_heap' = AfterUnwrap(kind_heap, kind_call.unwrapped)
    /\ UNCHANGED <<kind_named, kind_type>>
    /\ UNCHANGED notKind

KindNext == KindIsInput \/ KindIsOutput \/ KindUnwrap \/ KindUnwrapAgain

(***************************************************************************)
(* The specifications.                                                     *)
(***************************************************************************)
ReqIdle ==
    /\ entry = "graphql_sync"
    /\ schema_valid = TRUE
    /\ validators = [given |-> FALSE, list |-> <<>>]
    /\ variables = NoVars
    /\ pc = "idle"
    /\ ast = NoAst
    /\ trace = <<>>
    /\ executor = IdleExecutor
    /\ outcome = Pending

ValIdle ==
    /\ vdoc = NoAst
    /\ vst = NoVisitors
    /\ vpos = 0
    /\ vresults = <<>>

TypIdle ==
    /\ heap = <<>>
    /\ last_read = NoRead

ArgIdle ==
    /\ args = <<>>
    /\ arg_read = NoArgRead

EnumIdle ==
    /\ enums = <<>>
    /\ enum_call = NoEnumCall

ScaIdle ==
    /\ scalar = [serialize |-> "ok", parse |-> "ok", parse_literal |-> None]
    /\ scalar_call = NoScalarCall

SchIdle ==
    /\ sch = BuiltSchema
    /\ sch_validated = FALSE
    /\ sch_requests = 0

ExeIdle ==
    /\ xreq = IdleRequest
    /\ xfields = <<>>
    /\ counter = 0
    /\ xlog = <<>>
    /\ xerrors = <<>>
    /\ xout = XPending

EqIdle ==
    /\ eq_heap = <<>>
    /\ eq_a = NamedRef("Int")
    /\ eq_b = NamedRef("Int")
    /\ eq_call = NoEqCall

DepIdle == members = <<>>

KindIdle ==
    /\ kind_heap = <<>>
    /\ kind_named = "Int"
    /\ kind_type = NamedRef("Int")
    /\ kind_call = NoKindCall

\* Every group but g is idle.
IdleExcept(g) ==
    /\ g = "req" \/ ReqIdle
    /\ g = "val" \/ ValIdle
    /\ g = "typ" \/ TypIdle
    /\ g = "arg" \/ ArgIdle
    /\ g = "enum" \/ EnumIdle
    /\ g = "sca" \/ ScaIdle
    /\ g = "sch" \/ SchIdle
    /\ g = "exe" \/ ExeIdle
    /\ g = "eq" \/ EqIdle
    /\ g = "dep" \/ DepIdle
    /\ g = "kind" \/ KindIdle

Init == ReqInit /\ IdleExcept("req")
Next == ReqNext
Spec == Init /\ [][Next]_vars

InitVal == ValInit /\ IdleExcept("val")
NextVal == ValNext
SpecVal == InitVal /\ [][NextVal]_vars

InitTypes == TypInit /\ IdleExcept("typ")
NextTypes == TypNext
SpecTypes == InitTypes /\ [][NextTypes]_vars

InitArgs == ArgInit /\ IdleExcept("arg")
NextArgs == ArgNext
SpecArgs == InitArgs /\ [][NextArgs]_vars

InitEnum == EnumInit /\ IdleExcept("enum")
NextEnum == EnumNext
SpecEnum == InitEnum /\ [][NextEnum]_vars

InitScalar == ScalarInit /\ IdleExcept("sca")
NextScalar == ScalarNext
SpecScalar == InitScalar /\ [][NextScalar]_vars

InitSchema == SchInit /\ IdleExcept("sch")
NextSchema == SchNext
SpecSchema == InitSchema /\ [][NextSchema]_vars

InitExec == ExeInit /\ IdleExcept("exe")
NextExec == ExeNext
SpecExec == InitExec /\ [][NextExec]_vars

InitEq == EqInit /\ IdleExcept("eq")
NextEq == EqNext
SpecEq == InitEq /\ [][NextEq]_vars

InitDep == DepInit /\ IdleExcept("dep")
NextDep == DepNext
SpecDep == InitDep /\ [][NextDep]_vars

InitKind == KindInit /\ IdleExcept("kind")
NextKind == KindNext
SpecKind == InitKind /\ [][NextKind]_vars

(***************************************************************************)
(* Properties of the request pipeline (checked under Spec).                *)
(***************************************************************************)
IsValidatorCall(c) == c.fn = "validator"
IsResolverCall(c) == c.fn = "resolver"
ValidatorCallsMade == SelectSeq(trace, IsValidatorCall)
ExecuteStarted == \E i \in DOMAIN trace : trace[i].fn = "execute"
ResolverRan == \E i \in DOMAIN trace : trace[i].fn = "resolver"
\* validate_ast has returned
Validated == ast # NoAst /\ pc # "validate"
\* the errors validate_ast returned for this request
ValidationErrors == validate_ast("schema", ast, validators, NoVars).errors

\* C1: execute is invoked if and only if validate_ast returned no error;
\* when it returned errors, execute is never invoked, no resolver runs and
\* the result carries exactly the validation errors and no data.
C1_ExecuteIffDocumentValid ==
    /\ ExecuteStarted => Validated /\ ValidationErrors = <<>>
    /\ Validated /\ ValidationErrors = <<>> => pc = "execute" \/ ExecuteStarted
    /\ Validated /\ ValidationErrors # <<>> =>
         /\ ~ExecuteStarted
         /\ ~ResolverRan
         /\ pc = "done"
         /\ outcome = Returned(GraphQLResult(NullData, ValidationErrors))

C1_Witness ==
    /\ pc = "done"
    /\ Validated
    /\ Len(ValidationErrors) >= 2
    /\ outcome.kind = "returned"
    /\ outcome.result.errors = ValidationErrors

\* C2 as claimed: whichever stage fails, schema validation included, the
\* request ends with a GraphQLResult; only ExecutionError may escape.
C2_NeverThrows ==
    pc = "done" => outcome.kind = "returned" \/ outcome.exc = "ExecutionError"

\* C2 amended: with a valid schema the request always ends with a
\* GraphQLResult, whichever later stage fails, and no ExecutionError
\* escapes; with an invalid schema the error of schema.validate() escapes
\* before anything else is done.
C2_ReturnsResultUnlessSchemaInvalid ==
    pc = "done" =>
        IF schema_valid
        THEN outcome.kind = "returned"
        ELSE outcome = Raised("SchemaError") /\ trace = <<>>

C2_Witness ==
    /\ pc = "done"
    /\ schema_valid
    /\ entry = "graphql"
    /\ executor.plan.abort
    /\ ResolverRan
    /\ outcome.kind = "returned"

\* C3: when parse fails with a syntax error the request ends at once:
\* no validator and no execution is run, and the result is the one syntax
\* error with no data.
C3_SyntaxErrorShortCircuits ==
    pc = "done" /\ schema_valid /\ ast = NoAst =>
        /\ trace = <<Call("parse", "parser", NoVars)>>
        /\ outcome = Returned(GraphQLResult(NullData, <<GraphQLSyntaxError>>))

C3_Witness ==
    /\ pc = "done"
    /\ ast = NoAst
    /\ Len(trace) = 1
    /\ trace[1].fn = "parse"
    /\ outcome.kind = "returned"

C5_ExecutionErrorReplacesResult ==
    pc = "done" /\ executor.plan.abort =>
        outcome = Returned(GraphQLResult(NullData, <<ExecutionError>>))

C5_Witness ==
    /\ pc = "done"
    /\ entry = "graphql"
    /\ executor.plan.abort
    /\ executor.plan.fields = <<"ok", "err">>
    /\ executor.errors # <<>>
    /\ ResolverRan
    /\ outcome.result.errors = <<ExecutionError>>

\* C7: a supplied validators list replaces the defaults: every supplied
\* validator is called exactly once, in list order, with the arguments
\* validate_ast was given, default_validator is not called, and the errors
\* are the validators' errors concatenated in list order; without a list
\* exactly default_validator is called.
C7_CustomValidatorsReplaceDefaults ==
    Validated =>
        IF validators.given
        THEN /\ ValidatorCallsMade =
                  [i \in 1..Len(validators.list) |->
                     Call("validator", validators.list[i], NoVars)]
             /\ LET expected ==
                      Concat([i \in 1..Len(validators.list) |->
                                CustomErrors(validators.list[i], "schema", ast, NoVars)])
                IN IF expected = <<>>
                   THEN pc = "execute" \/ ExecuteStarted
                   ELSE outcome = Returned(GraphQLResult(NullData, expected))
        ELSE /\ ValidatorCallsMade = <<Call("validator", "default_validator", NoVars)>>
             /\ LET expected == default_validator("schema", ast, NoVars)
                IN IF expected = <<>>
                   THEN pc = "execute" \/ ExecuteStarted
                   ELSE outcome = Returned(GraphQLResult(NullData, expected))

C7_Witness ==
    /\ pc = "done"
    /\ validators.given
    /\ validators.list = <<"check_vars", "reject">>
    /\ \E r \in RuleSet : ast.viol[r] # 0
    /\ Len(ValidatorCallsMade) = 2
    /\ Len(outcome.result.errors) = 2

(***************************************************************************)
(* C26: whatever variables the request carries, every validator, default   *)
(* or supplied, is called with variables = None, so a validator that       *)
(* reports on the variables it is given reports nothing; the variables of  *)
(* the request are handed to execute.                                      *)
(***************************************************************************)
C26_ValidationNeverSeesVariables ==
    /\ \A i \in DOMAIN trace :
           /\ IsValidatorCall(trace[i]) => trace[i].vars = NoVars
           /\ trace[i].fn = "execute" => trace[i].vars = variables
    /\ (/\ Validated
         /\ validators.given
         /\ \A i \in DOMAIN validators.list : validators.list[i] = "check_vars")
           => (pc = "execute" \/ ExecuteStarted)

\* A request with two variables and the validator that reports on each
\* variable it is given: it was called without them, and execute with them.
C26_Witness ==
    /\ variables.given
    /\ Len(variables.values) = 2
    /\ validators.given
    /\ validators.list = <<"check_vars">>
    /\ ValidatorCallsMade = <<Call("validator", "check_vars", NoVars)>>
    /\ \E i \in DOMAIN trace :
           trace[i].fn = "execute" /\ trace[i].vars = variables

(***************************************************************************)
(* Properties of validate_ast with the default rules (checked under        *)
(* SpecVal).                                                               *)
(***************************************************************************)
\* C6: validate_ast is pure: every call on the same schema and document
\* returns the same errors, and every call starts from visitors with empty
\* buffers, so nothing of an earlier call is seen by a later one.
C6_ValidateAstIsPure ==
    /\ \A i \in DOMAIN vresults : vresults[i] = vresults[1]
    /\ vpos = 1 => vst = NoVisitors

C6_Witness ==
    /\ Len(vresults) = 2
    /\ Len(vresults[1]) = 2
    /\ vpos = 0

\* C8: TypeInfo is first in the parallel order: for every node its enter
\* is delivered before the enter of any rule and its leave after the leave
\* of every rule, so each rule callback for a node sees that node's type
\* context on top of the stack.
C8_TypeInfoFirst ==
    /\ \A i \in DOMAIN vst.log : vst.log[i].top = vst.log[i].node
    /\ LET sched == DefaultSchedule(vdoc)
       IN \A k \in DOMAIN sched :
            sched[k].visitor # "TypeInfo" =>
                \E j \in DOMAIN sched :
                  /\ sched[j] = [sched[k] EXCEPT !.visitor = "TypeInfo"]
                  /\ sched[k].kind = "enter" => j < k
                  /\ sched[k].kind = "leave" => j > k

C8_Witness ==
    /\ vpos > 0
    /\ \E i, j \in DOMAIN vst.log :
         /\ vst.log[i].kind = "enter" /\ vst.log[i].node = 3
         /\ vst.log[j].kind = "leave" /\ vst.log[j].node = 3
         /\ vst.log[j].visitor = SPECIFIED_RULES[2]
         /\ vst.log[j].top = 3
    /\ vdoc.parent[3] = 2

\* The callbacks one visitor receives during the walk, in order.
CallbacksOf(sched, v) ==
    LET mine == SelectSeq(sched, LAMBDA cb : cb.visitor = v)
    IN [i \in 1..Len(mine) |-> [kind |-> mine[i].kind, node |-> mine[i].node]]

RuleIndex(r) == CHOOSE i \in DOMAIN SPECIFIED_RULES : SPECIFIED_RULES[i] = r

\* The reports of rule r among errs, in the order of errs.
ByRule(errs, r) == SelectSeq(errs, LAMBDA e : e.by = r)

\* errs regrouped: the reports of the first rule, then of the second, ...
GroupedByRule(errs) ==
    Concat([i \in 1..Len(SPECIFIED_RULES) |-> ByRule(errs, SPECIFIED_RULES[i])])

\* A later rule reported before an earlier rule did.
Interleaved(errs) ==
    \E i, j \in DOMAIN errs :
        i < j /\ RuleIndex(errs[i].by) > RuleIndex(errs[j].by)

(***************************************************************************)
(* C22: a call of default_validator walks the document once (every        *)
(* visitor, the one TypeInfo visitor included, gets each enter and each    *)
(* leave of the walk exactly once) and returns the errors grouped by rule: *)
(* the reports of the first rule, then those of the second, each group in  *)
(* the order the rule made them; when a later rule reported before an      *)
(* earlier one the returned list is not in document order.                 *)
(***************************************************************************)
C22_ErrorsGroupedByRule ==
    (vpos = 0 /\ vresults # <<>>) =>
        LET returned == vresults[Len(vresults)]
            sched == DefaultSchedule(vdoc)
        IN /\ \A v \in {"TypeInfo"} \cup RuleSet :
                  CallbacksOf(sched, v) = Events(vdoc, 1)
           /\ Len(sched) = (1 + Len(SPECIFIED_RULES)) * 2 * vdoc.n
           /\ returned = GroupedByRule(vst.emitted)
           /\ Interleaved(vst.emitted) => returned # vst.emitted

C22_Witness ==
    /\ vpos = 0
    /\ vresults # <<>>
    /\ Interleaved(vst.emitted)
    /\ \A r \in RuleSet : Len(ByRule(vresults[Len(vresults)], r)) >= 2
    /\ vresults[Len(vresults)] # vst.emitted

(***************************************************************************)
(* Properties of the type objects (checked under SpecTypes).               *)
(***************************************************************************)
\* C9 as claimed: NonNull(NonNull(_)) is forbidden: after any sequence of
\* constructions, reads and assignments of .type no NonNullType has a
\* resolved inner type that is itself a NonNullType.
C9_NoNestedNonNull ==
    \A i \in 1..Len(heap) :
        heap[i].cls = "NonNullType" /\ heap[i].type.k = "obj" =>
            heap[heap[i].type.id].cls # "NonNullType"

\* C10: a lazy type reference is resolved once: over any sequence of reads
\* the thunk is evaluated at most once, and every read returns the same
\* type, the one the thunk (or the direct reference) stands for.
C10_LazyResolvedOnce ==
    /\ \A i \in 1..Len(heap) : heap[i].evals <= 1
    /\ last_read.obj # 0 =>
         /\ last_read.value = heap[last_read.obj].ltype.to
         /\ heap[last_read.obj].type = last_read.value

C10_Witness ==
    /\ last_read.obj # 0
    /\ last_read.n = 2
    /\ heap[last_read.obj].ltype.lazy
    /\ heap[last_read.obj].evals = 1
    /\ heap[last_read.obj].cls = "Field"
    /\ last_read.value.k = "obj"

(***************************************************************************)
(* C11: for every Argument and InputField, after construction and any      *)
(* sequence of assigning or deleting default_value, required is true       *)
(* exactly when type is a NonNullType and has_default_value is false.      *)
(***************************************************************************)
C11_RequiredIffNonNullWithoutDefault ==
    \A i \in 1..Len(args) :
        required(args[i]) <=>
            (args[i].type.cls = "NonNullType" /\ ~args[i].has_default_value)

(***************************************************************************)
(* C12: after construction and any sequence of assigning or deleting       *)
(* default_value, has_default_value is true exactly when a default is set, *)
(* that is exactly when reading default_value returns a value (None        *)
(* included) instead of raising AttributeError.                            *)
(***************************************************************************)
C12_HasDefaultValueIffReadable ==
    /\ \A i \in 1..Len(args) :
           args[i].has_default_value <=> DefaultValueGetter(args[i]).kind = "return"
    /\ arg_read.obj # 0 =>
           (args[arg_read.obj].has_default_value <=> arg_read.kind = "return")

\* The definitions of a list name some value twice.
HasDuplicateNames(defs) ==
    \E i, j \in 1..Len(defs) : i # j /\ defs[i].name = defs[j].name

\* The call recorded in enum_call was a lookup on an enum that exists.
IsLookup(call) == call.op \in {"get_value", "get_name"}

\* Some declared value of the enum has this name, or this internal value.
Declares(e, name) == \E i \in 1..Len(e.values) : e.values[i].name = name
HasValue(e, value) == \E i \in 1..Len(e.values) : e.values[i].value = value

(***************************************************************************)
(* C13: building an EnumType from a list in which two definitions have the *)
(* same name fails, and in every EnumType that exists the names of its     *)
(* values are pairwise distinct and the list and the name table agree: one *)
(* table entry per listed value.                                           *)
(***************************************************************************)
C13_EnumNamesAreUnique ==
    /\ (enum_call.op = "EnumType" /\ HasDuplicateNames(enum_call.defs))
           => enum_call.kind = "raise"
    /\ \A k \in 1..Len(enums) :
           LET e == enums[k] IN
           /\ \A i, j \in 1..Len(e.values) :
                  i # j => e.values[i].name # e.values[j].name
           /\ DOMAIN e.by_name = {e.values[i].name : i \in 1..Len(e.values)}
           /\ Cardinality(DOMAIN e.by_name) = Len(e.values)
           /\ \A i \in 1..Len(e.values) : e.by_name[e.values[i].name] = e.values[i]

\* An enum of two values exists and a construction with a repeated name
\* has just failed on the assertion.
C13_Witness ==
    /\ enum_call.op = "EnumType"
    /\ HasDuplicateNames(enum_call.defs)
    /\ enum_call.kind = "raise"
    /\ enum_call.value = "AssertionError"
    /\ \E k \in 1..Len(enums) : Len(enums[k].values) = 2

\* What get_value answered is what the claim says.
GetValueAnswer ==
    enum_call.op = "get_value" =>
        LET e == enums[enum_call.on] IN
        IF Declares(e, enum_call.arg)
        THEN /\ enum_call.kind = "return"
             /\ \E i \in 1..Len(e.values) :
                    /\ e.values[i].name = enum_call.arg
                    /\ e.values[i].value = enum_call.value
        ELSE enum_call.kind = "raise" /\ enum_call.value = "UnknownEnumValue"

\* What get_name answered is what the claim says, for the values in S.
GetNameAnswer(S) ==
    (enum_call.op = "get_name" /\ enum_call.arg \in S) =>
        LET e == enums[enum_call.on] IN
        IF HasValue(e, enum_call.arg)
        THEN /\ enum_call.kind = "return"
             /\ \E i \in 1..Len(e.values) :
                    /\ e.values[i].value = enum_call.arg
                    /\ e.values[i].name = enum_call.value
        ELSE enum_call.kind = "raise" /\ enum_call.value = "UnknownEnumValue"

\* A step that makes a lookup leaves every enum as it was.
LookupChangesNothing ==
    (enum_call' # enum_call /\ IsLookup(enum_call')) => enums' = enums

(***************************************************************************)
(* C14 as stated: get_value(name) returns the internal value of the        *)
(* declared value of that name and raises UnknownEnumValue for every       *)
(* undeclared name; get_name(value) returns the name of a declared value   *)
(* whose internal value is value and raises UnknownEnumValue for every     *)
(* value no declared value has; neither lookup changes the enum.           *)
(***************************************************************************)
C14_LookupTotalForEveryValue ==
    /\ [](GetValueAnswer /\ GetNameAnswer(EnumNames \cup InternalValues))
    /\ [][LookupChangesNothing]_vars

(***************************************************************************)
(* C14 amended: the same, with get_name raising UnknownEnumValue for every *)
(* hashable value no declared value has; an unhashable value makes         *)
(* get_name raise TypeError.                                               *)
(***************************************************************************)
C14_LookupTotalForHashableValues ==
    /\ [](/\ GetValueAnswer
          /\ GetNameAnswer({v \in EnumNames \cup InternalValues : Hashable(v)})
          /\ (enum_call.op = "get_name" /\ ~Hashable(enum_call.arg))
                 => (enum_call.kind = "raise" /\ enum_call.value = "TypeError"))
    /\ [][LookupChangesNothing]_vars

\* get_name has just raised UnknownEnumValue, on an enum of two values, for
\* a hashable value that none of them has.
C14_Witness ==
    /\ enum_call.op = "get_name"
    /\ Hashable(enum_call.arg)
    /\ Len(enums[enum_call.on].values) = 2
    /\ ~HasValue(enums[enum_call.on], enum_call.arg)
    /\ enum_call.kind = "raise"
    /\ enum_call.value = "UnknownEnumValue"

(***************************************************************************)
(* C25: in every EnumType, for every declared name n, get_name of          *)
(* get_value(n) is n, also when two names were declared with the same      *)
(* internal value.                                                         *)
(***************************************************************************)
C25_EnumRoundTrip ==
    \A i \in 1..Len(enums) :
        \A n \in DOMAIN enums[i].by_name :
            LET v == get_value(enums[i], n)
            IN /\ v.kind = "return"
               /\ get_name(enums[i], v.value) = [kind |-> "return", value |-> n]

\* The user function that the call recorded in scalar_call ran first.
UserFunctionOf(call) ==
    CASE call.op = "serialize" -> scalar.serialize
      [] call.op = "parse" -> scalar.parse
      [] call.op = "parse_literal" ->
             IF scalar.parse_literal # None THEN scalar.parse_literal
             ELSE scalar.parse
      [] OTHER -> "ok"

\* The typed error of an operation.
TypedError(op) ==
    IF op = "serialize" THEN "ScalarSerializationError" ELSE "ScalarParsingError"

\* The call recorded in scalar_call raised the typed error of its operation.
RaisedTyped(call) == call.kind = "raise" /\ call.value = TypedError(call.op)

(***************************************************************************)
(* C15 as stated: every error raised by a scalar's user-supplied           *)
(* serialize, parse or parse_literal surfaces from ScalarType.serialize,   *)
(* parse or parse_literal as the typed error (ScalarSerializationError for *)
(* serialize, ScalarParsingError for parse and parse_literal), never as    *)
(* the raw user exception.                                                 *)
(***************************************************************************)
C15_EveryUserErrorIsTyped ==
    (scalar_call.op # "none" /\ UserFunctionOf(scalar_call) \in UserExceptions)
        => RaisedTyped(scalar_call)

(***************************************************************************)
(* C15 amended: a ValueError or TypeError raised by the user-supplied      *)
(* function surfaces as the typed error, which has it as the origin of its *)
(* chain of causes; any other exception surfaces as it was raised, except  *)
(* an AttributeError                                                       *)
(* raised by the user-supplied parse_literal, which is dropped:            *)
(* parse_literal then answers what parse answers.                          *)
(***************************************************************************)
C15_ValueAndTypeErrorsAreTyped ==
    scalar_call.op # "none" =>
        LET f == UserFunctionOf(scalar_call) IN
        /\ f \in {"ValueError", "TypeError"}
               => (/\ RaisedTyped(scalar_call)
                   /\ scalar_call.cause[Len(scalar_call.cause)] = f)
        /\ (f \in UserExceptions \ {"ValueError", "TypeError"}
              /\ ~(scalar_call.op = "parse_literal" /\ f = "AttributeError"
                     /\ scalar.parse_literal # None))
               => (scalar_call.kind = "raise" /\ scalar_call.value = f)
        /\ (scalar_call.op = "parse_literal" /\ scalar.parse_literal = "AttributeError")
               => (/\ scalar_call.kind = parse(scalar, "node.value").kind
                   /\ scalar_call.value = parse(scalar, "node.value").value)

\* parse_literal has just turned the TypeError of the user's parse_literal
\* into ScalarParsingError.
C15_Witness ==
    /\ scalar_call.op = "parse_literal"
    /\ scalar.parse_literal = "TypeError"
    /\ scalar_call.kind = "raise"
    /\ scalar_call.value = "ScalarParsingError"
    /\ scalar_call.cause = <<"TypeError">>

\* What the user's parse receives when parse_literal hands it node.value.
ParseOfNodeValue == [fn |-> "parse", arg |-> "node.value", variables |-> "-"]

\* The call in scalar_call ended as a call of parse(node.value) ends.
AnswersAsParse(call) ==
    /\ call.kind = parse(scalar, "node.value").kind
    /\ call.value = parse(scalar, "node.value").value

(***************************************************************************)
(* C23: parse_literal(node, variables) of a scalar without a parse_literal *)
(* function answers parse(node.value); with one, the function is called    *)
(* with (node, variables or {}) and its result is returned, and when it    *)
(* raises AttributeError the answer is that of parse(node.value) instead;  *)
(* a ValueError or TypeError raised on any of these paths ends as a        *)
(* ScalarParsingError that carries the node.                               *)
(***************************************************************************)
C23_ParseLiteralFallsBackToParse ==
    scalar_call.op = "parse_literal" =>
        LET given == scalar.parse_literal # None
            fell_back == ~given \/ scalar.parse_literal = "AttributeError"
            last == IF fell_back THEN scalar.parse ELSE scalar.parse_literal
            called == scalar_call.called
        IN /\ ~given =>
                /\ AnswersAsParse(scalar_call)
                /\ \A i \in DOMAIN called : called[i] = ParseOfNodeValue
           /\ given =>
                called[1] = [fn |-> "parse_literal", arg |-> "node",
                             variables |->
                                 IF scalar_call.variables \in {None, "{}"}
                                 THEN "{}" ELSE scalar_call.variables]
           /\ scalar.parse_literal = "ok" =>
                /\ scalar_call.kind = "return"
                /\ scalar_call.value = "parse_literal"
                /\ Len(called) = 1
           /\ scalar.parse_literal = "AttributeError" =>
                /\ AnswersAsParse(scalar_call)
                /\ Len(called) = 2
                /\ called[2] = ParseOfNodeValue
           /\ last \in {"ValueError", "TypeError"} =>
                /\ scalar_call.kind = "raise"
                /\ scalar_call.value = "ScalarParsingError"
                /\ scalar_call.nodes = <<"node">>

\* The user's parse_literal raised AttributeError, parse was called with
\* node.value and raised ValueError: a ScalarParsingError with the node.
C23_Witness ==
    /\ scalar_call.op = "parse_literal"
    /\ scalar_call.variables = None
    /\ scalar.parse_literal = "AttributeError"
    /\ scalar.parse = "ValueError"
    /\ Len(scalar_call.called) = 2
    /\ scalar_call.called[1].variables = "{}"
    /\ scalar_call.kind = "raise"
    /\ scalar_call.value = "ScalarParsingError"
    /\ scalar_call.nodes = <<"node">>

(***************************************************************************)
(* C16: once a schema has been validated, no step (an assignment to type,  *)
(* fields, interfaces, types, arguments or default_value, or a request     *)
(* through do_graphql) changes the schema's structure.                     *)
(***************************************************************************)
C16_ValidatedSchemaIsImmutable ==
    [][sch_validated => sch' = sch]_vars

\* Sequence p is a prefix of sequence q.
IsPrefix(p, q) == Len(p) <= Len(q) /\ SubSeq(q, 1, Len(p)) = p

\* Some recorded error has a path that is a prefix of this response path.
ErrorAtPrefix(errors, path) ==
    \E e \in 1..Len(errors) : IsPrefix(errors[e].path, path)

\* How many of the first i root fields are resolved by inc.
IncsUpTo(i) == Cardinality({j \in 1..i : xreq.fields[j].returns = "inc"})

(***************************************************************************)
(* C17: in a mutation, under both executors, the resolver of root field    *)
(* i+1 is started only after the evaluation of root field i, the wait for  *)
(* its deferred value included, is done; so with every root field          *)
(* resolved by inc on a counter starting at 0, field i yields i            *)
(* (mutation { a: inc b: inc } yields a = 1 and b = 2).                    *)
(***************************************************************************)
C17_MutationFieldsRunInOrder ==
    xreq.op = "mutation" =>
        /\ \A p \in 1..Len(xlog) :
               (xlog[p].ev = "start" /\ xlog[p].field > 1)
                   => \E q \in 1..(p - 1) : xlog[q] = Event("done", xlog[p].field - 1)
        /\ \A i \in 1..Len(xfields) :
               (xfields[i].status = "done" /\ xreq.fields[i].returns = "inc")
                   => xfields[i].value = JInt(IncsUpTo(i))
        /\ (xout.kind = "returned" /\ \A i \in 1..Len(xfields) : xreq.fields[i].returns = "inc")
               => xout.result.data = Data([i \in 1..Len(xfields) |-> JInt(i)])

\* mutation { a: inc b: inc } with both values deferred, run by the
\* cooperative executor, has returned a = 1 and b = 2.
C17_Witness ==
    /\ xreq.op = "mutation"
    /\ xreq.executor = "AsyncExecutor"
    /\ Len(xreq.fields) = 2
    /\ \A i \in 1..2 : xreq.fields[i].returns = "inc" /\ xreq.fields[i].deferred
    /\ xout.kind = "returned"
    /\ xout.result.data = Data(<<JInt(1), JInt(2)>>)

\* The resolver of root field i returned null for a NonNull type.
RootNull(i) == xreq.fields[i].returns = "null" /\ xreq.fields[i].nonnull

\* The child of root field i returned null for a NonNull type.
ChildNull(i) ==
    /\ xreq.fields[i].returns = "object"
    /\ xreq.fields[i].child.returns = "null"
    /\ xreq.fields[i].child.nonnull

\* The null of root field i (its own or its child's) reaches the root.
ReachesRoot(i) == RootNull(i) \/ (ChildNull(i) /\ xreq.fields[i].nonnull)

(***************************************************************************)
(* C18: in the result of an execution, every null in data at a position    *)
(* of NonNull type has an error at a prefix of its path; a null produced   *)
(* for a NonNull field is recorded as an error with the field's path and   *)
(* replaces the nearest nullable ancestor, or the whole data when there is *)
(* none (type Query { x: Int! } with a resolver returning null: data is    *)
(* null, with one error whose path is the field).                          *)
(***************************************************************************)
C18_NullPropagation ==
    xout.kind = "returned" =>
        LET data == xout.result.data
            errors == xout.result.errors
        IN
        /\ ~data.null =>
               \A i \in 1..Len(data.fields) :
                   /\ (data.fields[i].k = "null" /\ xreq.fields[i].nonnull)
                          => ErrorAtPrefix(errors, <<Keys[i]>>)
                   /\ (data.fields[i].k = "object" /\ data.fields[i].x = "null"
                         /\ xreq.fields[i].child.nonnull)
                          => ErrorAtPrefix(errors, <<Keys[i], "x">>)
        /\ \A i \in 1..Len(xreq.fields) :
               /\ RootNull(i) =>
                      \E e \in 1..Len(errors) : errors[e].path = <<Keys[i]>>
               /\ ChildNull(i) =>
                      /\ \E e \in 1..Len(errors) : errors[e].path = <<Keys[i], "x">>
                      /\ data.null \/ data.fields[i] = JNull
        /\ data.null <=> \E i \in 1..Len(xreq.fields) : ReachesRoot(i)
        /\ (Len(xreq.fields) = 1 /\ RootNull(1))
               => (data.null /\ errors = <<FieldError(<<"a">>)>>)

\* A nullable object field whose NonNull child resolved to null has been
\* returned as null, the other root field keeping its value.
C18_Witness ==
    /\ xout.kind = "returned"
    /\ Len(xreq.fields) = 2
    /\ ChildNull(1)
    /\ ~xreq.fields[1].nonnull
    /\ xreq.fields[2].returns = "inc"
    /\ ~xout.result.data.null
    /\ xout.result.data.fields[1] = JNull
    /\ xout.result.data.fields[2] = JInt(1)
    /\ xout.result.errors = <<FieldError(<<"a", "x">>)>>

(***************************************************************************)
(* C19: SyncExecutor.execute_request returns a result that is not          *)
(* awaitable or raises; it never waits for a deferred value: a resolver    *)
(* that returns one makes the request fail with ExecutionError.            *)
(***************************************************************************)
C19_SyncExecutorNeverDefers ==
    xreq.executor = "SyncExecutor" =>
        /\ xout.kind = "returned" => ~xout.awaitable
        /\ \A p \in 1..Len(xlog) : xlog[p].ev # "awaited"
        /\ \A i \in 1..Len(xfields) : xfields[i].status # "awaiting"
        /\ (\E p \in 1..Len(xlog) :
                xlog[p].ev = "start" /\ xreq.fields[xlog[p].field].deferred)
               => (xout.kind = "raised" /\ xout.exc = "ExecutionError")

\* The sequential executor has completed a first field and rejected the
\* deferred value of the second.
C19_Witness ==
    /\ xreq.executor = "SyncExecutor"
    /\ Len(xreq.fields) = 2
    /\ xfields[1].status = "done"
    /\ xreq.fields[2].deferred
    /\ xlog[Len(xlog)] = Event("start", 2)
    /\ xout.kind = "raised"
    /\ xout.exc = "ExecutionError"

\* The classes of the wrapping types from t inwards, then the named type
\* they wrap.
RECURSIVE Shape(_, _)
Shape(h, t) ==
    IF t.k = "obj" THEN <<h[t.id].cls>> \o Shape(h, lazy(h[t.id].ltype))
    ELSE <<t.name>>

\* What the claim says x == y is.
EqualAsClaimed(h, x, y) ==
    \/ x = y
    \/ /\ x.k = "obj" /\ y.k = "obj"
       /\ Shape(h, x) = Shape(h, y)

(***************************************************************************)
(* C20: a == b holds exactly when a and b are the same object, or both are *)
(* ListType or both NonNullType with equal resolved inner types,           *)
(* recursively and whether an inner type was given directly or as a thunk  *)
(* (that is: the same classes of wrapping, in the same order, around the   *)
(* same named type object); == is reflexive and symmetric, and a ListType  *)
(* never equals a NonNullType.                                             *)
(***************************************************************************)
C20_EqByValueForWrappingTypes ==
    /\ eq_call.ab # "none" =>
           eq_call.ab = PyBool(EqualAsClaimed(eq_heap, eq_a, eq_b))
    /\ eq_call.ba # "none" =>
           eq_call.ba = PyBool(EqualAsClaimed(eq_heap, eq_b, eq_a))
    /\ (eq_call.ab # "none" /\ eq_a = eq_b) => eq_call.ab = "True"
    /\ (eq_call.ab # "none" /\ eq_call.ba # "none") => eq_call.ab = eq_call.ba
    /\ (eq_call.ab # "none"
          /\ {ClassOf(eq_heap, eq_a), ClassOf(eq_heap, eq_b)} = WrappingClasses)
           => eq_call.ab = "False"

\* Two distinct objects, each a ListType of its own NonNullType of Int, one
\* inner type given as a thunk, have been found equal in both directions.
C20_Witness ==
    /\ eq_a # eq_b
    /\ Len(eq_heap) = 4
    /\ Shape(eq_heap, eq_a) = <<"ListType", "NonNullType", "Int">>
    /\ Shape(eq_heap, eq_b) = <<"ListType", "NonNullType", "Int">>
    /\ \E i \in 1..4 : eq_heap[i].ltype.lazy
    /\ eq_call = [ab |-> "True", ba |-> "True"]

(***************************************************************************)
(* Properties of the deprecated flag (checked under SpecDep).              *)
(***************************************************************************)

(***************************************************************************)
(* C21: for every Field and every EnumValue, deprecated is True exactly    *)
(* when a deprecation reason was given (is not None), the empty string     *)
(* included.                                                               *)
(***************************************************************************)
C21_DeprecatedIffReasonGiven ==
    \A i \in 1..Len(members) :
        members[i].deprecated <=> members[i].deprecation_reason # None

(***************************************************************************)
(* Properties of the classification of types (checked under SpecKind).     *)
(***************************************************************************)

(***************************************************************************)
(* C24: for a type t built by nesting ListType and NonNullType over a      *)
(* named type n, is_input_type(t) is true exactly when n is a scalar, an   *)
(* enum or an input object, is_output_type(t) exactly when n is a scalar,  *)
(* an enum, an object, an interface or a union, both exactly when n is a   *)
(* scalar or an enum; unwrap_type(t) is n, which is no wrapping type, and  *)
(* unwrapping it again gives n.                                            *)
(***************************************************************************)
C24_ClassifiedByInnermostNamedType ==
    LET cls == NamedClass[kind_named] IN
    /\ kind_call.is_input # "none" =>
           (kind_call.is_input = "True"
               <=> cls \in {"ScalarType", "EnumType", "InputObjectType"})
    /\ kind_call.is_output # "none" =>
           (kind_call.is_output = "True"
               <=> cls \in {"ScalarType", "EnumType", "ObjectType",
                            "InterfaceType", "UnionType"})
    /\ (kind_call.is_input # "none" /\ kind_call.is_output # "none") =>
           ((kind_call.is_input = "True" /\ kind_call.is_output = "True")
               <=> cls \in {"ScalarType", "EnumType"})
    /\ kind_call.unwrapped # NoType =>
           /\ kind_call.unwrapped = NamedRef(kind_named)
           /\ kind_call.unwrapped.k # "obj"
    /\ kind_call.unwrapped_again # NoType =>
           kind_call.unwrapped_again = kind_call.unwrapped

\* [Point!] for an input object Point: an input type, no output type, and
\* unwrapped twice it is Point.
C24_Witness ==
    /\ Len(kind_heap) = 2
    /\ kind_type = ObjRef(2)
    /\ kind_heap[2].cls = "ListType"
    /\ kind_heap[1].cls = "NonNullType"
    /\ kind_named = "Point"
    /\ kind_call.is_input = "True"
    /\ kind_call.is_output = "False"
    /\ kind_call.unwrapped = NamedRef("Point")
    /\ kind_call.unwrapped_again = NamedRef("Point")

====
